---- MODULE Spec2Model ----
(***************************************************************************)
(* CutOut: the classical background-removal cascade (ImageProcessor), the  *)
(* /upload flow around it (server.ts, AIBackgroundRemover.removeBackground)*)
(* and the pure mask helpers the cascade is built from.                    *)
(*                                                                         *)
(* Numbers.  The source computes with IEEE doubles; the model computes the *)
(* same comparisons exactly over the integers: a distance d = sqrt(q) is   *)
(* carried as 100*q, a coordinate that is a multiple of 1/20, 1/10 or 1/8  *)
(* is carried scaled by 20, 10 or 8.  A typed-array read at an index that  *)
(* is not an integer, or is out of range, gives `undefined` in the source; *)
(* the model makes that explicit (such a read never compares equal to 0    *)
(* and never satisfies a distance test).                                   *)
(***************************************************************************)
EXTENDS Integers, Sequences, FiniteSets, TLC

Min2(a, b) == IF a <= b THEN a ELSE b

Max2(a, b) == IF a >= b THEN a ELSE b

Abs(a) == IF a >= 0 THEN a ELSE 0 - a

Sq(a) == a * a

\* ceil(a / b) for a >= 0, b > 0
CeilDiv(a, b) == (a + b - 1) \div b

MinSide(width, height) == Min2(width, height)

(***************************************************************************)
(* Exact comparison a*b <= c*d for naturals below 2^30 (the products do    *)
(* not fit 32-bit integers): both products as four base-2^15 digits.       *)
(***************************************************************************)
Digits(a, b) ==
    LET a1 == a \div 32768
        a0 == a % 32768
        b1 == b \div 32768
        b0 == b % 32768
        lo == a0 * b0
        mid == a1 * b0 + a0 * b1 + (lo \div 32768)
        hi == a1 * b1 + (mid \div 32768)
    IN  <<hi \div 32768, hi % 32768, mid % 32768, lo % 32768>>

SeqLeq(s, t) ==
    \/ s = t
    \/ \E k \in 1..4 : /\ s[k] < t[k]
                       /\ \A j \in 1..(k - 1) : s[j] = t[j]

MulLeq(a, b, c, d) == SeqLeq(Digits(a, b), Digits(c, d))

(***************************************************************************)
(* Colours are triples <<r, g, b>>; the colour read at an `undefined`      *)
(* index, and the colour parsed from the key "NaN,NaN,NaN", is <<>>.       *)
(***************************************************************************)
NaNColor == << >>

\* the (r,g,b) of pixel p of the interleaved buffer (p an in-range integer)
PixelAt(data, channels, p) ==
    <<data[p * channels], data[p * channels + 1], data[p * channels + 2]>>

\* Math.round(v / step) * step, round half up
Quantize(v, step) == ((2 * v + step) \div (2 * step)) * step

QuantizeColor(c, step) ==
    IF c = NaNColor THEN NaNColor
    ELSE <<Quantize(c[1], step), Quantize(c[2], step), Quantize(c[3], step)>>

\* 100 * (0.3 dr^2 + 0.59 dg^2 + 0.11 db^2): 100 times the squared perceptual
\* distance of the mask builders and the region grower
WeightedDist(c, t) ==
    30 * Sq(c[1] - t[1]) + 59 * Sq(c[2] - t[2]) + 11 * Sq(c[3] - t[3])

\* dr^2 + dg^2 + db^2: the squared plain distance of the scorer, the coverage
\* count and the corner mask
EuclidDist(c, t) == Sq(c[1] - t[1]) + Sq(c[2] - t[2]) + Sq(c[3] - t[3])

\* distance <= tolerance for a pixel colour that may be undefined (NaN <= t is false)
EuclidWithin(c, t, tolerance) ==
    /\ c # NaNColor
    /\ t # NaNColor
    /\ EuclidDist(c, t) <= Sq(tolerance)

(***************************************************************************)
(* createProtectedZone: 1 inside the ellipse centred on (w/2, h/2) with    *)
(* both semi-axes min(w,h)*0.5/2.  ((x-w/2)/(m/4))^2 + ((y-h/2)/(m/4))^2   *)
(* <= 1  iff  (4x-2w)^2 + (4y-2h)^2 <= m^2.                                *)
(***************************************************************************)
InZone(x, y, width, height) ==
    Sq(4 * x - 2 * width) + Sq(4 * y - 2 * height) <= Sq(MinSide(width, height))

createProtectedZone(width, height) ==
    [i \in 0..(width * height - 1) |->
        IF InZone(i % width, i \div width, width, height) THEN 1 ELSE 0]

(***************************************************************************)
(* The ramp of createProtectedMask, Math.round((d - 0.6T)/(0.4T) * 255),   *)
(* for 0.6T < d <= T, with q = 100 d^2: the largest k with                 *)
(* T(4k + 1528) <= 255 sqrt(q).                                            *)
(***************************************************************************)
RampPlain(q, tolerance) ==
    CHOOSE k \in 0..255 :
        /\ MulLeq(tolerance * (4 * k + 1528), tolerance * (4 * k + 1528), 65025, q)
        /\ \/ k = 255
           \/ ~MulLeq(tolerance * (4 * k + 1532), tolerance * (4 * k + 1532), 65025, q)

\* the ramp of createEnhancedProtectedMask, Math.round((d - 0.7T)/(0.3T) * 255),
\* for 0.7T < d <= T: the largest k with T(6k + 3567) <= 510 sqrt(q)
RampEnhanced(q, tolerance) ==
    CHOOSE k \in 0..255 :
        /\ MulLeq(tolerance * (6 * k + 3567), tolerance * (6 * k + 3567), 260100, q)
        /\ \/ k = 255
           \/ ~MulLeq(tolerance * (6 * k + 3573), tolerance * (6 * k + 3573), 260100, q)

\* the per-pixel value createProtectedMask writes outside the protected zone
PlainValue(q, tolerance) ==
    IF q <= 36 * Sq(tolerance) THEN 0
    ELSE IF q <= 100 * Sq(tolerance) THEN RampPlain(q, tolerance)
    ELSE 255

\* createProtectedMask without the protected-zone skip
createUnprotectedMask(data, width, height, channels, targetColor, tolerance) ==
    [i \in 0..(width * height - 1) |->
        IF targetColor = NaNColor THEN 255
        ELSE PlainValue(WeightedDist(PixelAt(data, channels, i), targetColor), tolerance)]

createProtectedMask(data, width, height, channels, targetColor, tolerance) ==
    [i \in 0..(width * height - 1) |->
        IF InZone(i % width, i \div width, width, height) \/ targetColor = NaNColor
        THEN 255
        ELSE PlainValue(WeightedDist(PixelAt(data, channels, i), targetColor), tolerance)]

\* Math.min(x, width - x, y, height - y)
EdgeDistance(x, y, width, height) ==
    Min2(Min2(x, width - x), Min2(y, height - y))

\* the per-pixel value createEnhancedProtectedMask writes outside the protected
\* zone; nearEdge is edgeDistance <= min(w,h) * 0.35
EnhancedValue(q, tolerance, nearEdge) ==
    IF q <= 49 * Sq(tolerance) THEN 0
    ELSE IF q <= 100 * Sq(tolerance) /\ nearEdge THEN RampEnhanced(q, tolerance)
    ELSE 255

createEnhancedProtectedMask(data, width, height, channels, targetColor, tolerance) ==
    [i \in 0..(width * height - 1) |->
        IF InZone(i % width, i \div width, width, height) \/ targetColor = NaNColor
        THEN 255
        ELSE EnhancedValue(
                WeightedDist(PixelAt(data, channels, i), targetColor), tolerance,
                20 * EdgeDistance(i % width, i \div width, width, height)
                    <= 7 * MinSide(width, height))]

(***************************************************************************)
(* Connected regions of the zero pixels of a mask, read in a gw x gh       *)
(* row-major geometry whose pixel (a, b) is mask index shift + b*gw + a    *)
(* (an index past the end of the mask reads `undefined`, which is not 0).  *)
(***************************************************************************)
IsZeroAt(mask, p) == p \in DOMAIN mask /\ mask[p] = 0

\* the 4-connected neighbours of cell q = b*gw + a that lie inside the geometry
GridNeighbors(q, gw, gh) ==
    (IF q % gw # gw - 1 THEN {q + 1} ELSE {})
        \cup (IF q % gw # 0 THEN {q - 1} ELSE {})
        \cup (IF q + gw < gw * gh THEN {q + gw} ELSE {})
        \cup (IF q - gw >= 0 THEN {q - gw} ELSE {})

\* one breadth-first level: the unseen zero neighbours of the frontier
ReachStep(acc, mask, shift, gw, gh) ==
    LET next == {n \in UNION {GridNeighbors(q, gw, gh) : q \in acc.frontier} :
                    n \notin acc.seen /\ IsZeroAt(mask, shift + n)}
    IN  [frontier |-> next, seen |-> acc.seen \cup next]

RECURSIVE ReachLoop(_, _, _, _, _, _)
\* at most k levels (the loop is split in halves to keep the evaluation shallow)
ReachLoop(k, acc, mask, shift, gw, gh) ==
    IF acc.frontier = {} \/ k = 0 THEN acc
    ELSE IF k = 1 THEN ReachStep(acc, mask, shift, gw, gh)
    ELSE ReachLoop(k - (k \div 2), ReachLoop(k \div 2, acc, mask, shift, gw, gh),
                   mask, shift, gw, gh)

\* markConnectedRegion / measureHoleSize: the zero region of cell q
RegionOf(q, mask, shift, gw, gh) ==
    ReachLoop(gw * gh, [frontier |-> {q}, seen |-> {q}], mask, shift, gw, gh).seen

\* the outer loop of countConnectedRegions: the first unvisited zero pixel
\* starts a region
RegionStep(acc, mask, gw, gh) ==
    LET start == CHOOSE p \in acc.remaining : \A r \in acc.remaining : p <= r
    IN  [remaining |-> acc.remaining \ RegionOf(start, mask, 0, gw, gh),
         regions |-> acc.regions + 1]

RECURSIVE RegionLoop(_, _, _, _, _)
RegionLoop(k, acc, mask, gw, gh) ==
    IF acc.remaining = {} \/ k = 0 THEN acc
    ELSE IF k = 1 THEN RegionStep(acc, mask, gw, gh)
    ELSE RegionLoop(k - (k \div 2), RegionLoop(k \div 2, acc, mask, gw, gh), mask, gw, gh)

\* countConnectedRegions(mask, width, height)
countConnectedRegions(mask, width, height) ==
    RegionLoop(Cardinality(DOMAIN mask),
               [remaining |-> {i \in DOMAIN mask : mask[i] = 0}, regions |-> 0],
               mask, width, height).regions

\* Math.sqrt(mask.length); the uploaded images have a perfect-square pixel
\* count, so the root is an integer (0 stands for a fractional root)
IntSqrt(n) == IF \E s \in 0..n : s * s = n THEN CHOOSE s \in 0..n : s * s = n ELSE 0

IsSquareNumber(n) == \E s \in 0..n : s * s = n

RemovedPixels(mask) == Cardinality({i \in DOMAIN mask : mask[i] = 0})

\* analyzeMaskStatistics: removedPixels (removedPercentage = removedPixels /
\* mask.length * 100 is compared exactly, see PercentAtLeast) and the region
\* count of the mask read as sqrt(length) x sqrt(length)
analyzeMaskStatistics(mask) ==
    [removedPixels |-> RemovedPixels(mask),
     total |-> Cardinality(DOMAIN mask),
     connectedRegions |->
        countConnectedRegions(mask, IntSqrt(Cardinality(DOMAIN mask)),
                              IntSqrt(Cardinality(DOMAIN mask)))]

\* stats.removedPercentage >= pct
PercentAtLeast(stats, pct) == 100 * stats.removedPixels >= pct * stats.total

\* stats.removedPercentage <= pct
PercentAtMost(stats, pct) == 100 * stats.removedPixels <= pct * stats.total

(***************************************************************************)
(* validateObjectPreservation.  centerSize = 0.3 m, centerX = w/2 - 0.15 m *)
(* (m = min(w,h)): the loops run x = centerX + kx, y = centerY + ky for    *)
(* kx, ky < 0.3 m, and read mask[y*w + x]; 20*(y*w + x) is                 *)
(* (10h - 3m + 20ky) w + 10w - 3m + 20kx, and the read is `undefined`      *)
(* unless that is a multiple of 20.                                        *)
(***************************************************************************)
CenterIterations(width, height) == CeilDiv(3 * MinSide(width, height), 10)

CenterIndex20(kx, ky, width, height) ==
    (10 * height - 3 * MinSide(width, height) + 20 * ky) * width
        + 10 * width - 3 * MinSide(width, height) + 20 * kx

\* removedInCenter
RemovedInCenter(mask, width, height) ==
    Cardinality({k \in (0..(CenterIterations(width, height) - 1))
                        \X (0..(CenterIterations(width, height) - 1)) :
        /\ CenterIndex20(k[1], k[2], width, height) % 20 = 0
        /\ IsZeroAt(mask, CenterIndex20(k[1], k[2], width, height) \div 20)})

\* totalCenterPixels
TotalCenterPixels(width, height) == Sq(CenterIterations(width, height))

(***************************************************************************)
(* checkForProblematicHoles / measureHoleSize.  centerSize = 0.25 m,       *)
(* centerX = w/2 - m/8: coordinates scaled by 8.  measureHoleSize walks    *)
(* x +- 1, y +- 1 from the (possibly fractional) start, so every cell it   *)
(* visits has the start's fractional parts: cell (a, b) of the w x h grid  *)
(* is mask index shift + b*w + a, shift = frac(centerY)*w + frac(centerX). *)
(***************************************************************************)
HoleIterations(width, height) == CeilDiv(MinSide(width, height), 4)

HoleIndex8(kx, ky, width, height) ==
    (4 * height - MinSide(width, height) + 8 * ky) * width
        + 4 * width - MinSide(width, height) + 8 * kx

HoleShift(width, height) ==
    (((4 * height - MinSide(width, height)) % 8) * width
        + ((4 * width - MinSide(width, height)) % 8)) \div 8

\* holeSize of the hole found at loop position (kx, ky)
measureHoleSize(mask, kx, ky, width, height) ==
    Cardinality(RegionOf((HoleIndex8(kx, ky, width, height) \div 8) - HoleShift(width, height),
                         mask, HoleShift(width, height), width, height))

checkForProblematicHoles(mask, width, height) ==
    \E kx \in 0..(HoleIterations(width, height) - 1) :
        \E ky \in 0..(HoleIterations(width, height) - 1) :
            /\ HoleIndex8(kx, ky, width, height) % 8 = 0
            /\ IsZeroAt(mask, HoleIndex8(kx, ky, width, height) \div 8)
            /\ 100 * measureHoleSize(mask, kx, ky, width, height) > 5 * width * height

\* a validator without the centre test
validateHolesOnly(mask, width, height) ==
    ~checkForProblematicHoles(mask, width, height)

validateObjectPreservation(mask, width, height) ==
    /\ ~(100 * RemovedInCenter(mask, width, height) > 12 * TotalCenterPixels(width, height))
    /\ ~checkForProblematicHoles(mask, width, height)

(***************************************************************************)
(* RegionGrower.  enhancedFloodFill pops its FIFO queue until the queue is *)
(* empty or processedPixels (a counter local to the call) reaches          *)
(* maxPixels = 0.65 * width * height.  The queue is processed here one     *)
(* breadth-first layer at a time, the entries of a layer in queue order,   *)
(* so the pixels absorbed before the cap are the ones the source absorbs.  *)
(***************************************************************************)
\* processedPixels < maxPixels
BelowCap(processedPixels, width, height) ==
    100 * processedPixels < 65 * width * height

\* distance <= adjustedTolerance, q = 100 * distance^2:
\* adjustedTolerance = tolerance * (1 - min(1, edgeDistance / (0.4 m)) * 0.2)
WithinAdjustedTolerance(q, x, y, width, height, tolerance) ==
    LET m == MinSide(width, height)
        ed == EdgeDistance(x, y, width, height)
    IN  IF 5 * ed >= 2 * m
        THEN q <= 64 * Sq(tolerance)
        ELSE MulLeq(q, 4 * Sq(m), 100 * Sq(tolerance), Sq(2 * m - ed))

\* the test of a popped entry without the protected-zone test
AbsorbsIgnoringZone(data, visited, pos, startColor, width, height, channels, tolerance) ==
    /\ pos[1] >= 0
    /\ pos[1] < width
    /\ pos[2] >= 0
    /\ pos[2] < height
    /\ (pos[2] * width + pos[1]) \notin visited
    /\ WithinAdjustedTolerance(
            WeightedDist(PixelAt(data, channels, pos[2] * width + pos[1]), startColor),
            pos[1], pos[2], width, height, tolerance)

\* the test of one popped queue entry <<x, y>>: TRUE iff the pixel is absorbed
Absorbs(data, visited, pos, startColor, width, height, channels, tolerance) ==
    /\ pos[1] >= 0
    /\ pos[1] < width
    /\ pos[2] >= 0
    /\ pos[2] < height
    /\ (pos[2] * width + pos[1]) \notin visited
    /\ ~InZone(pos[1], pos[2], width, height)
    /\ WithinAdjustedTolerance(
            WeightedDist(PixelAt(data, channels, pos[2] * width + pos[1]), startColor),
            pos[1], pos[2], width, height, tolerance)

\* one pop of the queue: entry pos of the current layer; acc = [visited,
\* processed, layer, next]
PopEntry(acc, pos, data, startColor, width, height, channels, tolerance) ==
    IF ~BelowCap(acc.processed, width, height) THEN acc
    ELSE IF Absorbs(data, acc.visited, pos, startColor, width, height, channels, tolerance)
    THEN [acc EXCEPT !.visited = @ \cup {pos[2] * width + pos[1]},
                     !.processed = @ + 1,
                     !.next = @ \o <<<<pos[1] + 1, pos[2]>>, <<pos[1] - 1, pos[2]>>,
                                     <<pos[1], pos[2] + 1>>, <<pos[1], pos[2] - 1>>>>]
    ELSE acc

RECURSIVE ProcessLayer(_, _, _, _, _, _, _, _, _)
\* pops entries lo..hi of acc.layer in order (split in halves to keep the
\* evaluation shallow)
ProcessLayer(lo, hi, acc, data, startColor, width, height, channels, tolerance) ==
    IF lo > hi \/ ~BelowCap(acc.processed, width, height) THEN acc
    ELSE IF lo = hi
    THEN PopEntry(acc, acc.layer[lo], data, startColor, width, height, channels, tolerance)
    ELSE ProcessLayer(((lo + hi) \div 2) + 1, hi,
            ProcessLayer(lo, (lo + hi) \div 2, acc,
                         data, startColor, width, height, channels, tolerance),
            data, startColor, width, height, channels, tolerance)

\* the queue entries pushed while a layer was popped become the next layer
LayerStep(acc, data, startColor, width, height, channels, tolerance) ==
    LET done == ProcessLayer(1, Len(acc.layer), acc,
                             data, startColor, width, height, channels, tolerance)
    IN  [done EXCEPT !.layer = done.next, !.next = << >>]

RECURSIVE FillLoop(_, _, _, _, _, _, _, _)
\* while (queue.length > 0 && processedPixels < maxPixels), at most k layers
FillLoop(k, acc, data, startColor, width, height, channels, tolerance) ==
    IF acc.layer = << >> \/ ~BelowCap(acc.processed, width, height) \/ k = 0 THEN acc
    ELSE IF k = 1
    THEN LayerStep(acc, data, startColor, width, height, channels, tolerance)
    ELSE FillLoop(k - (k \div 2),
            FillLoop(k \div 2, acc, data, startColor, width, height, channels, tolerance),
            data, startColor, width, height, channels, tolerance)

\* enhancedFloodFill from (startX, startY): the visited set afterwards and the
\* number of pixels this call absorbed
enhancedFloodFill(data, visited, startX, startY, width, height, channels, tolerance) ==
    FillLoop(width * height + 1,
             [visited |-> visited, processed |-> 0,
              layer |-> <<<<startX, startY>>>>, next |-> << >>],
             data, PixelAt(data, channels, startY * width + startX),
             width, height, channels, tolerance)

\* lightness > 120 || colorVariation < 50
isLikelyBackgroundPixel(data, x, y, width, height, channels) ==
    LET c == PixelAt(data, channels, y * width + x)
    IN  \/ c[1] + c[2] + c[3] > 360
        \/ Abs(c[1] - c[2]) + Abs(c[2] - c[3]) + Abs(c[1] - c[3]) < 50

\* startPoints: the four corners, then the edge midpoints and the quarter
\* points that look like background
StartPoints(data, width, height, channels) ==
    LET likely(pt) == isLikelyBackgroundPixel(data, pt[1], pt[2], width, height, channels)
    IN  <<<<0, 0>>, <<width - 1, 0>>, <<0, height - 1>>, <<width - 1, height - 1>>>>
        \o SelectSeq(<<<<width \div 2, 0>>, <<width \div 2, height - 1>>,
                       <<0, height \div 2>>, <<width - 1, height \div 2>>>>, likely)
        \o SelectSeq(<<<<width \div 4, 0>>, <<(3 * width) \div 4, 0>>,
                       <<width \div 4, height - 1>>, <<(3 * width) \div 4, height - 1>>,
                       <<0, height \div 4>>, <<0, (3 * height) \div 4>>,
                       <<width - 1, height \div 4>>, <<width - 1, (3 * height) \div 4>>>>,
                     likely)

\* one call of the loop over startPoints (tolerance 40)
SeedStep(run, seed, data, width, height, channels) ==
    LET r == enhancedFloodFill(data, run.visited, seed[1], seed[2],
                               width, height, channels, 40)
    IN  [visited |-> r.visited, perSeed |-> Append(run.perSeed, r.processed)]

RECURSIVE FillFrom(_, _, _, _, _, _)
\* the loop over startPoints: the shared visited set and the per-seed counts of
\* absorbed pixels; the next seed is the one after those already counted
FillFrom(seeds, run, data, width, height, channels) ==
    IF Len(run.perSeed) >= Len(seeds) THEN run
    ELSE FillFrom(seeds,
                  SeedStep(run, seeds[Len(run.perSeed) + 1], data, width, height, channels),
                  data, width, height, channels)

FloodFillRun(data, width, height, channels) ==
    FillFrom(StartPoints(data, width, height, channels),
             [visited |-> {}, perSeed |-> << >>], data, width, height, channels)

createEnhancedFloodFillMask(data, width, height, channels) ==
    LET absorbed == FloodFillRun(data, width, height, channels).visited
    IN  [i \in 0..(width * height - 1) |-> IF i \in absorbed THEN 0 ELSE 255]

(***************************************************************************)
(* Colour counting.  The source counts quantised colours in an object (or  *)
(* Map) keyed by "r,g,b", whose entries come back in insertion order, and  *)
(* sorts them by count with the (stable) Array.prototype.sort.             *)
(***************************************************************************)
\* the entries sorted by descending count, ties in insertion order; keys is
\* the sequence of quantised colours in the order they were counted
SortedCounts(keys) ==
    LET distinct == {keys[i] : i \in 1..Len(keys)}
        count(k) == Cardinality({i \in 1..Len(keys) : keys[i] = k})
        first(k) == CHOOSE i \in 1..Len(keys) :
                        keys[i] = k /\ \A j \in 1..(i - 1) : keys[j] # k
        before(k1, k2) == \/ count(k1) > count(k2)
                          \/ count(k1) = count(k2) /\ first(k1) < first(k2)
        rank(k) == 1 + Cardinality({k1 \in distinct : before(k1, k)})
    IN  [n \in 1..Cardinality(distinct) |->
            LET k == CHOOSE k0 \in distinct : rank(k0) = n
            IN  [color |-> k, count |-> count(k)]]

\* .slice(0, n)
Slice(s, n) == SubSeq(s, 1, Min2(n, Len(s)))

(***************************************************************************)
(* sampleBackgroundRegions.  borderSize = max(10, 0.05 m); the four corner *)
(* regions are 2*borderSize wide, sampled every second pixel.  Coordinates *)
(* are carried scaled by 10 (2*borderSize*10 = max(200, m)).               *)
(***************************************************************************)
RegionSize10(width, height) == Max2(200, MinSide(width, height))

\* the three bytes read at byte index num / den: `undefined` (a NaN colour)
\* unless the index is an integer with all three bytes inside the buffer
ReadScaled(data, num, den) ==
    IF num % den # 0 \/ num < 0 \/ (num \div den) + 2 \notin DOMAIN data THEN NaNColor
    ELSE <<data[num \div den], data[(num \div den) + 1], data[(num \div den) + 2]>>

\* the sample read at scaled position (x10, y10): idx = (y*width + x)*channels
SampleAt10(data, width, channels, x10, y10) ==
    ReadScaled(data, (y10 * width + x10) * channels, 10)

\* the samples of the region whose scaled corner is (rx10, ry10) and scaled
\* size is size10, rows top to bottom from (x0, y0), every `stride` pixels; a
\* sample is pushed when idx + 2 < data.length, which holds for a prefix of
\* the positions visited
RegionSamples(data, width, height, channels, rx10, ry10, size10, x0, y0, stride) ==
    LET xEnd == Min2(10 * width, rx10 + size10)
        yEnd == Min2(10 * height, ry10 + size10)
        nx == IF xEnd > x0 THEN CeilDiv(xEnd - x0, 10 * stride) ELSE 0
        ny == IF yEnd > y0 THEN CeilDiv(yEnd - y0, 10 * stride) ELSE 0
        xs(k) == x0 + 10 * stride * ((k - 1) % nx)
        ys(k) == y0 + 10 * stride * ((k - 1) \div nx)
        pushed(k) == ((ys(k) * width + xs(k)) * channels) + 20
                        < 10 * width * height * channels
    IN  [k \in 1..Cardinality({j \in 1..(nx * ny) : pushed(j)}) |->
            SampleAt10(data, width, channels, xs(k), ys(k))]

sampleBackgroundRegions(data, width, height, channels) ==
    LET size10 == RegionSize10(width, height)
        region(rx10, ry10) ==
            RegionSamples(data, width, height, channels, rx10, ry10, size10,
                          Max2(0, rx10), Max2(0, ry10), 2)
    IN  region(0, 0) \o region(10 * width - size10, 0)
        \o region(0, 10 * height - size10)
        \o region(10 * width - size10, 10 * height - size10)

\* analyzeColorClusters: keys rounded to multiples of 15, top 5 by count
analyzeColorClusters(pixels) ==
    Slice(SortedCounts([i \in 1..Len(pixels) |-> QuantizeColor(pixels[i], 15)]), 5)

(***************************************************************************)
(* createColorHistogram / findDominantColors: every pixel rounded to       *)
(* multiples of 10; frequency = count / total * 100 orders as count does.  *)
(***************************************************************************)
createColorHistogram(data, width, height, channels) ==
    SortedCounts([i \in 1..(width * height) |->
                    QuantizeColor(PixelAt(data, channels, i - 1), 10)])

findDominantColors(data, width, height, channels, n) ==
    Slice(createColorHistogram(data, width, height, channels), n)

(***************************************************************************)
(* calculateEnhancedBackgroundScore (tolerance 40).  With edgePresence =   *)
(* em/et, cornerConcentration = cm/ct, centerAbsence = 1 - zm/zt and the   *)
(* bias B in {0, 10},  score >= 0.5  iff                                   *)
(* (35 em ct + 30 cm et) zt >= et ct ((25 - B) zt + 25 zm).                *)
(***************************************************************************)
\* calculateEdgePresence: <<edgeMatches, totalEdgePixels>>
calculateEdgePresence(data, width, height, channels, targetColor, tolerance) ==
    LET border == {i \in 0..(width * height - 1) :
                        \/ i % width = 0
                        \/ i % width = width - 1
                        \/ i \div width = 0
                        \/ i \div width = height - 1}
    IN  <<Cardinality({i \in border :
                EuclidWithin(PixelAt(data, channels, i), targetColor, tolerance)}),
          Cardinality(border)>>

\* the loop positions of the four min(w,h)*0.1 corner squares, scaled by 10:
\* <<corner, x10, y10>>
CornerPositions10(width, height) ==
    LET size10 == MinSide(width, height)
        n == CeilDiv(size10, 10)
        xs == <<0, 10 * width - size10, 0, 10 * width - size10>>
        ys == <<0, 0, 10 * height - size10, 10 * height - size10>>
    IN  {<<c, xs[c] + 10 * kx, ys[c] + 10 * ky>> :
            c \in 1..4, kx \in 0..(n - 1), ky \in 0..(n - 1)}

\* calculateCornerConcentration: <<cornerMatches, totalCornerPixels>>
calculateCornerConcentration(data, width, height, channels, targetColor, tolerance) ==
    <<Cardinality({p \in CornerPositions10(width, height) :
            EuclidWithin(SampleAt10(data, width, channels, p[2], p[3]),
                         targetColor, tolerance)}),
      Cardinality(CornerPositions10(width, height))>>

\* calculateCenterAbsence: <<centerMatches, totalCenterPixels>> of the 0.3 m
\* window (positions scaled by 20 as in validateObjectPreservation)
calculateCenterAbsence(data, width, height, channels, targetColor, tolerance) ==
    <<Cardinality({k \in (0..(CenterIterations(width, height) - 1))
                            \X (0..(CenterIterations(width, height) - 1)) :
            EuclidWithin(ReadScaled(data,
                            CenterIndex20(k[1], k[2], width, height) * channels, 20),
                         targetColor, tolerance)}),
      Sq(CenterIterations(width, height))>>

\* lightness > 150 || isNeutral, as the 0.1 bonus scaled by 100
LightBias(c) ==
    IF c[1] + c[2] + c[3] > 450 \/ (Abs(c[1] - c[2]) < 30 /\ Abs(c[2] - c[3]) < 30)
    THEN 10 ELSE 0

\* calculateEnhancedBackgroundScore(...) >= 0.5
ScoreAtLeastHalf(data, width, height, channels, targetColor) ==
    LET e == calculateEdgePresence(data, width, height, channels, targetColor, 40)
        c == calculateCornerConcentration(data, width, height, channels, targetColor, 40)
        z == calculateCenterAbsence(data, width, height, channels, targetColor, 40)
    IN  MulLeq(e[2] * c[2], (25 - LightBias(targetColor)) * z[2] + 25 * z[1],
               35 * e[1] * c[2] + 30 * c[1] * e[2], z[2])

(***************************************************************************)
(* The helpers of forceBackgroundRemoval.  A result that may be null is a  *)
(* sequence of at most one colour.                                         *)
(***************************************************************************)
\* getMostFrequentColor: keys rounded to multiples of 20; null for no samples
getMostFrequentColor(pixels) ==
    IF pixels = << >> THEN << >>
    ELSE <<SortedCounts([i \in 1..Len(pixels) |-> QuantizeColor(pixels[i], 20)])[1].color>>

\* sampleCorners: cornerSize = max(20, 0.1 m); the loops start at the corner
\* itself, which lies outside the image when a side is shorter than cornerSize
sampleCorners(data, width, height, channels) ==
    LET size10 == RegionSize10(width, height)
        corner(rx10, ry10) ==
            RegionSamples(data, width, height, channels, rx10, ry10, size10, rx10, ry10, 2)
    IN  corner(0, 0) \o corner(10 * width - size10, 0)
        \o corner(0, 10 * height - size10)
        \o corner(10 * width - size10, 10 * height - size10)

\* calculateColorCoverage: matchCount (coverage = matchCount / totalPixels * 100)
calculateColorCoverage(data, width, height, channels, targetColor, tolerance) ==
    Cardinality({i \in 0..(width * height - 1) :
        EuclidWithin(PixelAt(data, channels, i), targetColor, tolerance)})

\* the most frequent corner colour taken as the candidate whatever it covers
findCornerColorUnvalidated(data, width, height, channels) ==
    getMostFrequentColor(sampleCorners(data, width, height, channels))

\* findMostLikelyBackgroundColor: the corner colour if it covers >= 15% at
\* tolerance 50, else null
findMostLikelyBackgroundColor(data, width, height, channels) ==
    LET cornerColor == getMostFrequentColor(sampleCorners(data, width, height, channels))
    IN  IF /\ cornerColor # << >>
           /\ 100 * calculateColorCoverage(data, width, height, channels, cornerColor[1], 50)
                >= 15 * width * height
        THEN cornerColor ELSE << >>

\* createLightBackgroundMask without the protected-zone test
createLightBackgroundMaskUnprotected(data, width, height, channels) ==
    [i \in 0..(width * height - 1) |->
        LET c == PixelAt(data, channels, i)
            sum == c[1] + c[2] + c[3]
            variation == Abs(c[1] - c[2]) + Abs(c[2] - c[3]) + Abs(c[1] - c[3])
        IN  IF /\ (sum > 360 \/ variation < 30)
               /\ \/ sum > 420
                  \/ variation < 20
                  \/ EdgeDistance(i % width, i \div width, width, height) < 35
            THEN 0 ELSE 255]

\* createLightBackgroundMask; lightness = (r+g+b)/3, edgeBonus > 0.3 iff
\* edgeDistance < 35
createLightBackgroundMask(data, width, height, channels) ==
    [i \in 0..(width * height - 1) |->
        LET c == PixelAt(data, channels, i)
            sum == c[1] + c[2] + c[3]
            variation == Abs(c[1] - c[2]) + Abs(c[2] - c[3]) + Abs(c[1] - c[3])
        IN  IF InZone(i % width, i \div width, width, height) THEN 255
            ELSE IF /\ (sum > 360 \/ variation < 30)
                    /\ \/ sum > 420
                       \/ variation < 20
                       \/ EdgeDistance(i % width, i \div width, width, height) < 35
            THEN 0 ELSE 255]

\* edgeData[idx] < limit; a read past the end of the edge buffer is `undefined`
EdgeBelow(edgeData, idx, limit) == idx \in DOMAIN edgeData /\ edgeData[idx] < limit

\* hasLowEdgeNeighbors: at least 70% of the in-image 5x5 neighbourhood is < 25
hasLowEdgeNeighbors(edgeData, x, y, width, height) ==
    LET around == {n \in ((x - 2)..(x + 2)) \X ((y - 2)..(y + 2)) :
                        n[1] >= 0 /\ n[1] < width /\ n[2] >= 0 /\ n[2] < height}
    IN  /\ Cardinality(around) > 0
        /\ 10 * Cardinality({n \in around : EdgeBelow(edgeData, n[2] * width + n[1], 25)})
                >= 7 * Cardinality(around)

\* createEnhancedEdgeMask; borderSize = 0.3 m
createEnhancedEdgeMask(data, edgeData, width, height, channels) ==
    [i \in 0..(width * height - 1) |->
        LET x == i % width
            y == i \div width
            m3 == 3 * MinSide(width, height)
        IN  IF InZone(x, y, width, height) THEN 255
            ELSE IF /\ EdgeBelow(edgeData, i, 40)
                    /\ \/ 10 * x < m3
                       \/ 10 * x >= 10 * width - m3
                       \/ 10 * y < m3
                       \/ 10 * y >= 10 * height - m3
                       \/ hasLowEdgeNeighbors(edgeData, x, y, width, height)
            THEN 0 ELSE 255]

\* getCornerDominantColor for the corner square at scaled (rx10, ry10)
getCornerDominantColor(data, rx10, ry10, size10, width, height, channels) ==
    getMostFrequentColor(
        RegionSamples(data, width, height, channels, rx10, ry10, size10, rx10, ry10, 2))

\* createEnhancedCornerMask: the corner squares (cornerSize = 0.1 m) within 40
\* of their dominant colour; a write at a non-integer index writes nothing
createEnhancedCornerMask(data, width, height, channels) ==
    LET size10 == MinSide(width, height)
        xs == <<0, 10 * width - size10, 0, 10 * width - size10>>
        ys == <<0, 0, 10 * height - size10, 10 * height - size10>>
        color == [c \in 1..4 |->
                    getCornerDominantColor(data, xs[c], ys[c], size10, width, height, channels)]
        cleared == {(p[3] * width + p[2]) \div 10 : p \in
                      {q \in CornerPositions10(width, height) :
                          /\ (q[3] * width + q[2]) % 10 = 0
                          /\ color[q[1]] # << >>
                          /\ EuclidWithin(SampleAt10(data, width, channels, q[2], q[3]),
                                          color[q[1]][1], 40)}}
    IN  [i \in 0..(width * height - 1) |-> IF i \in cleared THEN 0 ELSE 255]

(***************************************************************************)
(* The five stages.  Each stage operator gives the mask the stage hands to *)
(* applyMaskAndSave, as a sequence of at most one mask (empty: the stage   *)
(* rejects every candidate).                                               *)
(***************************************************************************)
\* removedPercentage >= lo && removedPercentage <= hi
PercentWithin(mask, lo, hi) ==
    /\ 100 * RemovedPixels(mask) >= lo * Cardinality(DOMAIN mask)
    /\ 100 * RemovedPixels(mask) <= hi * Cardinality(DOMAIN mask)

\* the acceptance test with the upper limit at 60% removed
AdvancedAcceptsTo60(mask, width, height) ==
    /\ PercentWithin(mask, 15, 60)
    /\ analyzeMaskStatistics(mask).connectedRegions <= 6
    /\ validateObjectPreservation(mask, width, height)

\* the acceptance test of advancedBackgroundDetection
AdvancedAccepts(mask, width, height) ==
    /\ PercentWithin(mask, 15, 80)
    /\ analyzeMaskStatistics(mask).connectedRegions <= 6
    /\ validateObjectPreservation(mask, width, height)

\* the candidate pairs with the tolerances tried from the largest down
AdvancedCandidatesLargestFirst(data, width, height, channels) ==
    LET clusters == analyzeColorClusters(sampleBackgroundRegions(data, width, height, channels))
        tolerances == <<95, 75, 55, 35>>
    IN  [n \in 1..(4 * Len(clusters)) |->
            [color |-> clusters[((n - 1) \div 4) + 1].color,
             tolerance |-> tolerances[((n - 1) % 4) + 1]]]

\* the (cluster colour, tolerance) pairs in the order the nested loops try them
AdvancedCandidates(data, width, height, channels) ==
    LET clusters == analyzeColorClusters(sampleBackgroundRegions(data, width, height, channels))
        tolerances == <<35, 55, 75, 95>>
    IN  [n \in 1..(4 * Len(clusters)) |->
            [color |-> clusters[((n - 1) \div 4) + 1].color,
             tolerance |-> tolerances[((n - 1) % 4) + 1]]]

RECURSIVE AdvancedFrom(_, _, _, _, _, _)
\* the first candidate from position n on whose mask is accepted
AdvancedFrom(cands, n, data, width, height, channels) ==
    IF n > Len(cands) THEN << >>
    ELSE IF AdvancedAccepts(createProtectedMask(data, width, height, channels,
                                cands[n].color, cands[n].tolerance), width, height)
    THEN <<n>>
    ELSE AdvancedFrom(cands, n + 1, data, width, height, channels)

\* the candidate advancedBackgroundDetection accepts, if any
AdvancedChoice(data, width, height, channels) ==
    LET cands == AdvancedCandidates(data, width, height, channels)
        found == AdvancedFrom(cands, 1, data, width, height, channels)
    IN  IF found = << >> THEN << >> ELSE <<cands[found[1]]>>

advancedBackgroundDetection(data, width, height, channels) ==
    LET choice == AdvancedChoice(data, width, height, channels)
    IN  IF choice = << >> THEN << >>
        ELSE <<createProtectedMask(data, width, height, channels,
                                   choice[1].color, choice[1].tolerance)>>

\* floodFillBackgroundRemoval accepting at most 65% removed
floodFillBandTo65(data, width, height, channels) ==
    LET mask == createEnhancedFloodFillMask(data, width, height, channels)
    IN  IF PercentWithin(mask, 10, 65) /\ validateObjectPreservation(mask, width, height)
        THEN <<mask>> ELSE << >>

floodFillBackgroundRemoval(data, width, height, channels) ==
    LET mask == createEnhancedFloodFillMask(data, width, height, channels)
    IN  IF PercentWithin(mask, 10, 85) /\ validateObjectPreservation(mask, width, height)
        THEN <<mask>> ELSE << >>

\* the (dominant colour, tolerance) pairs statisticalBackgroundSeparation tries:
\* colours with frequency >= 8 and background score >= 0.5
StatisticalCandidates(data, width, height, channels) ==
    LET eligible == SelectSeq(findDominantColors(data, width, height, channels, 7),
                        LAMBDA d : /\ 100 * d.count >= 8 * width * height
                                   /\ ScoreAtLeastHalf(data, width, height, channels, d.color))
        tolerances == <<40, 60, 80, 100>>
    IN  [n \in 1..(4 * Len(eligible)) |->
            [color |-> eligible[((n - 1) \div 4) + 1].color,
             tolerance |-> tolerances[((n - 1) % 4) + 1]]]

RECURSIVE StatisticalFromEnhanced(_, _, _, _, _, _)
\* the candidate loop of statisticalBackgroundSeparation building its masks with
\* createEnhancedProtectedMask
StatisticalFromEnhanced(cands, n, data, width, height, channels) ==
    IF n > Len(cands) THEN << >>
    ELSE LET mask == createEnhancedProtectedMask(data, width, height, channels,
                                                 cands[n].color, cands[n].tolerance)
         IN  IF PercentWithin(mask, 15, 80) /\ validateObjectPreservation(mask, width, height)
             THEN <<mask>>
             ELSE StatisticalFromEnhanced(cands, n + 1, data, width, height, channels)

RECURSIVE StatisticalFrom(_, _, _, _, _, _)
StatisticalFrom(cands, n, data, width, height, channels) ==
    IF n > Len(cands) THEN << >>
    ELSE LET mask == createProtectedMask(data, width, height, channels,
                                         cands[n].color, cands[n].tolerance)
         IN  IF PercentWithin(mask, 15, 80) /\ validateObjectPreservation(mask, width, height)
             THEN <<mask>>
             ELSE StatisticalFrom(cands, n + 1, data, width, height, channels)

statisticalBackgroundSeparation(data, width, height, channels) ==
    StatisticalFrom(StatisticalCandidates(data, width, height, channels), 1,
                    data, width, height, channels)

\* aggressiveEdgeProcessing once the edge buffer has been produced
aggressiveEdgeProcessing(data, edgeData, width, height, channels) ==
    LET mask == createEnhancedEdgeMask(data, edgeData, width, height, channels)
    IN  IF PercentWithin(mask, 10, 85) /\ validateObjectPreservation(mask, width, height)
        THEN <<mask>> ELSE << >>

RECURSIVE ForcedCandidateFrom(_, _, _, _, _, _)
\* the tolerance loop of forceBackgroundRemoval over <<50, 70, 90, 110>>
ForcedCandidateFrom(n, candidate, data, width, height, channels) ==
    IF n > 4 THEN << >>
    ELSE LET mask == createEnhancedProtectedMask(data, width, height, channels,
                                                 candidate, <<50, 70, 90, 110>>[n])
         IN  IF PercentWithin(mask, 10, 80) /\ validateObjectPreservation(mask, width, height)
             THEN <<mask>>
             ELSE ForcedCandidateFrom(n + 1, candidate, data, width, height, channels)

\* the try block of forceBackgroundRemoval: the mask of the first sub-strategy
\* that accepts, with its name; no mask when all three reject
forceBackgroundRemoval(data, width, height, channels) ==
    LET candidate == findMostLikelyBackgroundColor(data, width, height, channels)
        byCandidate == IF candidate = << >> THEN << >>
                       ELSE ForcedCandidateFrom(1, candidate[1], data, width, height, channels)
        lightMask == createLightBackgroundMask(data, width, height, channels)
        cornerMask == createEnhancedCornerMask(data, width, height, channels)
    IN  IF byCandidate # << >> THEN [sub |-> "candidate", mask |-> byCandidate]
        ELSE IF /\ PercentWithin(lightMask, 8, 70)
                /\ validateObjectPreservation(lightMask, width, height)
        THEN [sub |-> "light", mask |-> <<lightMask>>]
        ELSE IF 100 * RemovedPixels(cornerMask) >= 5 * width * height
        THEN [sub |-> "corner", mask |-> <<cornerMask>>]
        ELSE [sub |-> "none", mask |-> << >>]

\* the RGBA buffer applyMaskAndSave builds: the image's r, g, b and the mask
\* as alpha
RgbaBuffer(data, mask, width, height, channels) ==
    [k \in 0..(width * height * 4 - 1) |->
        IF k % 4 = 3 THEN mask[k \div 4] ELSE data[(k \div 4) * channels + (k % 4)]]

\* the buffer of the catch block of forceBackgroundRemoval: alpha 255 everywhere
OpaqueBuffer(data, width, height, channels) ==
    [k \in 0..(width * height * 4 - 1) |->
        IF k % 4 = 3 THEN 255 ELSE data[(k \div 4) * channels + (k % 4)]]

(***************************************************************************)
(* Input images.  A decoded raster is width, height, channels (3 or 4) and *)
(* the interleaved bytes; the images the model draws are two-colour        *)
(* patterns over a small palette.                                          *)
(***************************************************************************)
White == <<255, 255, 255>>

Red == <<255, 0, 0>>

Blue == <<0, 0, 200>>

LightGrey == <<230, 230, 230>>

DarkRed == <<200, 0, 0>>

Patterns == {"uniform", "bordered", "chess", "dotted", "halves"}

\* the border width of the bordered pattern: a fifth of the shorter side
BorderOf(width, height) == Max2(1, MinSide(width, height) \div 5)

PatternColor(pattern, x, y, width, height, a, b) ==
    CASE pattern = "uniform" -> a
      [] pattern = "bordered" ->
            IF /\ x >= BorderOf(width, height)
               /\ x < width - BorderOf(width, height)
               /\ y >= BorderOf(width, height)
               /\ y < height - BorderOf(width, height)
            THEN b ELSE a
      [] pattern = "chess" -> IF (x + y) % 2 = 0 THEN a ELSE b
      [] pattern = "dotted" -> IF x % 2 = 0 /\ y % 2 = 0 /\ y <= 20 THEN a ELSE b
      [] OTHER -> IF 2 * x < width THEN a ELSE b

MakeImage(width, height, channels, pattern, a, b) ==
    [k \in 0..(width * height * channels - 1) |->
        IF k % channels = 3 THEN 255
        ELSE PatternColor(pattern, (k \div channels) % width, (k \div channels) \div width,
                          width, height, a, b)[(k % channels) + 1]]

(***************************************************************************)
(* The /upload flow and the cascade as a state machine.                    *)
(***************************************************************************)
\* largest side of the small images a run may upload
MaxSide == 7

\* most writes of the output file that may fail in one run
MaxWriteFailures == 2

\* the two-colour pictures a run may upload: <<pattern, a, b>>
Pictures ==
    {<<"uniform", White, White>>, <<"uniform", DarkRed, DarkRed>>,
     <<"bordered", White, Red>>, <<"chess", White, Red>>,
     <<"chess", Red, Blue>>, <<"halves", Red, White>>}

\* the small images: every size up to MaxSide whose pixel count is a perfect
\* square (analyzeMaskStatistics reads the mask as sqrt(n) x sqrt(n))
SmallImages ==
    {[width |-> w, height |-> h, channels |-> ch,
      pattern |-> p[1], a |-> p[2], b |-> p[3]] :
        w \in 1..MaxSide, h \in 1..MaxSide,
        ch \in {3, 4}, p \in Pictures}

\* the two end-to-end scenarios: a uniform 50x50 image, and the 100x100 image
\* with a 20 pixel white border around a 60x60 red square
ScenarioImages ==
    {[width |-> 50, height |-> 50, channels |-> 3,
      pattern |-> "uniform", a |-> White, b |-> White],
     [width |-> 50, height |-> 50, channels |-> 4,
      pattern |-> "uniform", a |-> DarkRed, b |-> DarkRed],
     [width |-> 100, height |-> 100, channels |-> 3,
      pattern |-> "bordered", a |-> White, b |-> Red]}

Images ==
    {img \in SmallImages : IsSquareNumber(img.width * img.height)} \cup ScenarioImages

\* the decoded raw buffer of an uploaded image
Decoded(img) == MakeImage(img.width, img.height, img.channels, img.pattern, img.a, img.b)

VARIABLES
    input,          \* the uploaded image
    apiEnabled,     \* ENABLE_REMOVE_BG_API && REMOVE_BG_API_KEY
    pc,             \* where the /upload handler is
    apiOutcome,     \* "none", "succeeded" or "failed": removeWithAPI
    aiResult,       \* what AIBackgroundRemover.removeBackground returned, if it has
    trace,          \* the cascade stages started so far, with their verdicts
    saveCalls,      \* the stages that invoked applyMaskAndSave, in order
    writeFailures,  \* how many writes of the output file have failed
    output,         \* the file at outputPath, if one has been written
    result,         \* what ImageProcessor.removeBackground returned, if it has
    response,       \* the HTTP response, if one has been sent
    call            \* the helper application under study (helper specification)

vars == <<input, apiEnabled, pc, apiOutcome, aiResult, trace, saveCalls,
          writeFailures, output, result, response, call>>

\* a helper application: the helper, its colour and tolerance arguments, the
\* mask it was given or returned, the per-seed counts of the region grower and
\* the validator's verdict (fields a helper does not have keep these defaults)
Call(op, color, tolerance, mask, perSeed, accepted) ==
    [op |-> op, color |-> color, tolerance |-> tolerance, mask |-> mask,
     perSeed |-> perSeed, accepted |-> accepted]

NoCall == Call("none", << >>, 0, << >>, << >>, FALSE)

Init ==
    /\ input \in Images
    /\ apiEnabled \in BOOLEAN
    /\ pc = "upload"
    /\ apiOutcome = "none"
    /\ aiResult = << >>
    /\ trace = << >>
    /\ saveCalls = << >>
    /\ writeFailures = 0
    /\ output = << >>
    /\ result = << >>
    /\ response = << >>
    /\ call = NoCall

\* the method labels removeBackground returns
StageLabel(stage) ==
    CASE stage = "advanced" -> "Advanced Background Detection"
      [] stage = "flood" -> "Flood Fill Background Removal"
      [] stage = "statistical" -> "Statistical Background Separation"
      [] stage = "edge" -> "Aggressive Edge Processing"
      [] OTHER -> "Forced Background Removal"

StageOrder == <<"advanced", "flood", "statistical", "edge", "forced">>

\* a PNG written from an RGBA buffer by `stage`
Written(stage, pixels) ==
    <<[by |-> StageLabel(stage), width |-> input.width, height |-> input.height,
       pixels |-> pixels]>>

\* a file written by the remote classifier or the local synthesizer (its
\* content is produced outside the modelled code)
WrittenExternally(method) ==
    <<[by |-> method, width |-> input.width, height |-> input.height, pixels |-> << >>]>>

\* a write of the output file may fail while failures are left
MayFail == writeFailures < MaxWriteFailures

\* POST /upload: no file gives 400; otherwise AIBackgroundRemover.removeBackground
\* starts, with the remote classifier when it is enabled and keyed
Upload ==
    /\ pc = "upload"
    /\ \E hasFile \in BOOLEAN :
        IF hasFile
        THEN /\ pc' = IF apiEnabled THEN "api" ELSE "local"
             /\ response' = response
        ELSE /\ pc' = "done"
             /\ response' = <<[status |-> 400, success |-> FALSE, method |-> "",
                               fallbackUsed |-> FALSE]>>
    /\ UNCHANGED <<input, apiEnabled, apiOutcome, aiResult, trace, saveCalls,
                   writeFailures, output, result, call>>

\* removeWithAPI: on success the response body is written to outputPath and
\* removeBackground returns it; any error is caught and the local synthesizer
\* is tried
RemoveWithAPI ==
    /\ pc = "api"
    /\ \E ok \in BOOLEAN :
        IF ok
        THEN /\ apiOutcome' = "succeeded"
             /\ output' = WrittenExternally("remove.bg API")
             /\ aiResult' = <<[success |-> TRUE, method |-> "remove.bg API"]>>
             /\ pc' = "respond"
        ELSE /\ apiOutcome' = "failed"
             /\ pc' = "local"
             /\ UNCHANGED <<output, aiResult>>
    /\ UNCHANGED <<input, apiEnabled, trace, saveCalls, writeFailures, result,
                   response, call>>

\* enhancedLocalProcessing whose result is discarded: the cascade runs after it
\* in any case
EnhancedLocalProcessingThenCascade ==
    /\ pc = "local"
    /\ \E ok \in BOOLEAN :
        /\ aiResult' = <<[success |-> ok,
                          method |-> IF ok THEN "Enhanced Local AI-Inspired Processing"
                                     ELSE ""]>>
        /\ output' = IF ok THEN WrittenExternally("Enhanced Local AI-Inspired Processing")
                     ELSE output
        /\ pc' = "decode"
    /\ UNCHANGED <<input, apiEnabled, apiOutcome, trace, saveCalls, writeFailures,
                   result, response, call>>

\* enhancedLocalProcessing: its result, success or not, is what
\* AIBackgroundRemover.removeBackground returns; the handler falls back to the
\* cascade when that result is unsuccessful
EnhancedLocalProcessing ==
    /\ pc = "local"
    /\ \E ok \in BOOLEAN :
        IF ok
        THEN /\ output' = WrittenExternally("Enhanced Local AI-Inspired Processing")
             /\ aiResult' = <<[success |-> TRUE,
                               method |-> "Enhanced Local AI-Inspired Processing"]>>
             /\ pc' = "respond"
        ELSE /\ aiResult' = <<[success |-> FALSE, method |-> ""]>>
             /\ pc' = "decode"
             /\ UNCHANGED output
    /\ UNCHANGED <<input, apiEnabled, apiOutcome, trace, saveCalls, writeFailures,
                   result, response, call>>

\* ImageProcessor.removeBackground starts: metadata and raw decode; an error
\* there goes to the outer catch
Decode ==
    /\ pc = "decode"
    /\ \E ok \in BOOLEAN :
        IF ok
        THEN /\ pc' = "advanced"
             /\ UNCHANGED result
        ELSE /\ pc' = "respond"
             /\ result' = <<[success |-> FALSE, method |-> "",
                                  error |-> "Processing failed"]>>
    /\ UNCHANGED <<input, apiEnabled, apiOutcome, aiResult, trace, saveCalls,
                   writeFailures, output, response, call>>

\* the entry a stage adds to the trace
Entry(stage, verdict, choice, sub) ==
    [stage |-> stage, verdict |-> verdict, choice |-> choice, sub |-> sub]

\* a stage whose rejection, when it is the last of stages 1-4, ends the run
\* with { success: false }
RunStageRejectionFails(stage, next, found, choice) ==
    /\ UNCHANGED <<input, apiEnabled, apiOutcome, aiResult, response, call>>
    /\ IF found = << >>
       THEN /\ trace' = Append(trace, Entry(stage, "rejected", << >>, ""))
            /\ pc' = IF next = "forced" THEN "respond" ELSE next
            /\ result' = IF next = "forced"
                         THEN <<[success |-> FALSE, method |-> "",
                                 error |-> "Processing failed"]>>
                         ELSE result
            /\ UNCHANGED <<saveCalls, writeFailures, output>>
       ELSE /\ saveCalls' = Append(saveCalls, stage)
            /\ \E ok \in {TRUE} \cup (IF MayFail THEN {FALSE} ELSE {}) :
                IF ok
                THEN /\ output' = Written(stage,
                            RgbaBuffer(Decoded(input), found[1], input.width,
                                       input.height, input.channels))
                     /\ result' = <<[success |-> TRUE, method |-> StageLabel(stage),
                                       error |-> ""]>>
                     /\ trace' = Append(trace, Entry(stage, "saved", choice, ""))
                     /\ pc' = "respond"
                     /\ UNCHANGED writeFailures
                ELSE /\ writeFailures' = writeFailures + 1
                     /\ trace' = Append(trace, Entry(stage, "saveFailed", choice, ""))
                     /\ pc' = next
                     /\ UNCHANGED <<output, result>>

\* one of stages 1-4 with the mask it found (none: it rejects).  An accepted
\* mask goes to applyMaskAndSave; if the write throws, the stage's own catch
\* turns that into { success: false } and the cascade goes on
RunStage(stage, next, found, choice) ==
    /\ UNCHANGED <<input, apiEnabled, apiOutcome, aiResult, response, call>>
    /\ IF found = << >>
       THEN /\ trace' = Append(trace, Entry(stage, "rejected", << >>, ""))
            /\ pc' = next
            /\ UNCHANGED <<saveCalls, writeFailures, output, result>>
       ELSE /\ saveCalls' = Append(saveCalls, stage)
            /\ \E ok \in {TRUE} \cup (IF MayFail THEN {FALSE} ELSE {}) :
                IF ok
                THEN /\ output' = Written(stage,
                            RgbaBuffer(Decoded(input), found[1], input.width,
                                       input.height, input.channels))
                     /\ result' = <<[success |-> TRUE, method |-> StageLabel(stage),
                                       error |-> ""]>>
                     /\ trace' = Append(trace, Entry(stage, "saved", choice, ""))
                     /\ pc' = "respond"
                     /\ UNCHANGED writeFailures
                ELSE /\ writeFailures' = writeFailures + 1
                     /\ trace' = Append(trace, Entry(stage, "saveFailed", choice, ""))
                     /\ pc' = next
                     /\ UNCHANGED <<output, result>>

\* advancedBackgroundDetection taking any accepted candidate, not the first in
\* loop order
AdvancedDetectionAnyCandidate ==
    /\ pc = "advanced"
    /\ LET cands == AdvancedCandidates(Decoded(input), input.width, input.height,
                                       input.channels)
           accepted == {n \in 1..Len(cands) :
                           AdvancedAccepts(createProtectedMask(Decoded(input), input.width,
                                               input.height, input.channels, cands[n].color,
                                               cands[n].tolerance),
                                           input.width, input.height)}
       IN  IF accepted = {}
           THEN RunStage("advanced", "flood", << >>, << >>)
           ELSE \E n \in accepted :
                    RunStage("advanced", "flood",
                             <<createProtectedMask(Decoded(input), input.width, input.height,
                                   input.channels, cands[n].color, cands[n].tolerance)>>,
                             <<cands[n]>>)

AdvancedDetection ==
    /\ pc = "advanced"
    /\ LET choice == AdvancedChoice(Decoded(input), input.width, input.height,
                                    input.channels)
       IN  RunStage("advanced", "flood",
                    IF choice = << >> THEN << >>
                    ELSE <<createProtectedMask(Decoded(input), input.width, input.height,
                               input.channels, choice[1].color, choice[1].tolerance)>>,
                    choice)

FloodFill ==
    /\ pc = "flood"
    /\ RunStage("flood", "statistical",
                floodFillBackgroundRemoval(Decoded(input), input.width, input.height,
                                           input.channels), << >>)

StatisticalSeparation ==
    /\ pc = "statistical"
    /\ RunStage("statistical", "edge",
                statisticalBackgroundSeparation(Decoded(input), input.width,
                                                input.height, input.channels), << >>)

\* the output of the sharp edge pipeline (greyscale, blur, normalise, convolve,
\* toBuffer) is produced outside the modelled code: a buffer of zeros, a buffer
\* of 255s, or an exception (the trace entry of the stage keeps which)
EdgeBuffers == {"flat", "strong"}

EdgeBuffer(kind, n) == [i \in 0..(n - 1) |-> IF kind = "flat" THEN 0 ELSE 255]

EdgeProcessing ==
    /\ pc = "edge"
    /\ \/ \E kind \in EdgeBuffers :
            RunStage("edge", "forced",
                     aggressiveEdgeProcessing(Decoded(input),
                         EdgeBuffer(kind, input.width * input.height),
                         input.width, input.height, input.channels), <<kind>>)
       \/ /\ trace' = Append(trace, Entry("edge", "threw", << >>, ""))
          /\ pc' = "forced"
          /\ UNCHANGED <<input, apiEnabled, apiOutcome, aiResult, saveCalls,
                         writeFailures, output, result, response, call>>

\* stage 5.  forceBackgroundRemoval returns nothing and removeBackground
\* reports success after it unconditionally; an exception inside its try block
\* (a failed applyMaskAndSave) is answered by writing the opaque fallback, and
\* only a failure of that write too reaches removeBackground's catch
ForcedRemoval ==
    /\ pc = "forced"
    /\ pc' = "respond"
    /\ UNCHANGED <<input, apiEnabled, apiOutcome, aiResult, response, call>>
    /\ LET forced == forceBackgroundRemoval(Decoded(input), input.width, input.height,
                                            input.channels)
           success == <<[success |-> TRUE, method |-> StageLabel("forced"),
                        error |-> "Applied aggressive background removal as fallback"]>>
       IN  IF forced.sub = "none"
           THEN /\ trace' = Append(trace, Entry("forced", "none", << >>, forced.sub))
                /\ result' = success
                /\ UNCHANGED <<saveCalls, writeFailures, output>>
           ELSE /\ saveCalls' = Append(saveCalls, "forced")
                /\ \/ /\ output' = Written("forced",
                            RgbaBuffer(Decoded(input), forced.mask[1], input.width,
                                       input.height, input.channels))
                      /\ trace' = Append(trace, Entry("forced", "saved", << >>, forced.sub))
                      /\ result' = success
                      /\ UNCHANGED writeFailures
                   \/ /\ MayFail
                      /\ output' = Written("forced",
                            OpaqueBuffer(Decoded(input), input.width, input.height,
                                         input.channels))
                      /\ trace' = Append(trace,
                                         Entry("forced", "fallback", << >>, forced.sub))
                      /\ result' = success
                      /\ writeFailures' = writeFailures + 1
                   \/ /\ writeFailures + 1 < MaxWriteFailures
                      /\ trace' = Append(trace,
                                         Entry("forced", "failed", << >>, forced.sub))
                      /\ result' = <<[success |-> FALSE, method |-> "",
                                  error |-> "Processing failed"]>>
                      /\ writeFailures' = writeFailures + 2
                      /\ UNCHANGED output

\* the handler answers: the AI result when it is successful, else the result
\* of the cascade (500 when that failed too)
Respond ==
    /\ pc = "respond"
    /\ pc' = "done"
    /\ response' =
        IF aiResult # << >> /\ aiResult[1].success
        THEN <<[status |-> 200, success |-> TRUE, method |-> aiResult[1].method,
                fallbackUsed |-> FALSE]>>
        ELSE IF result[1].success
        THEN <<[status |-> 200, success |-> TRUE, method |-> result[1].method,
                fallbackUsed |-> TRUE]>>
        ELSE <<[status |-> 500, success |-> FALSE, method |-> "",
                fallbackUsed |-> FALSE]>>
    /\ UNCHANGED <<input, apiEnabled, apiOutcome, aiResult, trace, saveCalls,
                   writeFailures, output, result, call>>

Next ==
    \/ Upload
    \/ RemoveWithAPI
    \/ EnhancedLocalProcessing
    \/ Decode
    \/ AdvancedDetection
    \/ FloodFill
    \/ StatisticalSeparation
    \/ EdgeProcessing
    \/ ForcedRemoval
    \/ Respond

Spec == Init /\ [][Next]_vars

(***************************************************************************)
(* Properties of the cascade and of the /upload flow.                      *)
(***************************************************************************)
\* ImageProcessor.removeBackground has returned { success: true, ... }
Succeeded == result # << >> /\ result[1].success

\* the file at outputPath is a width x height RGBA raster
RgbaWritten ==
    /\ output # << >>
    /\ output[1].width = input.width
    /\ output[1].height = input.height
    /\ DOMAIN output[1].pixels = 0..(4 * input.width * input.height - 1)

\* the alpha channel of the written raster, as a mask
AlphaOf(file) ==
    [i \in 0..(file.width * file.height - 1) |-> file.pixels[4 * i + 3]]

\* the verdicts with which a stage reports { success: false } to removeBackground
Rejections == {"rejected", "saveFailed", "threw"}

\* ImageProcessor.removeBackground has been invoked
CascadeInvoked ==
    pc \in {"decode", "advanced", "flood", "statistical", "edge", "forced"}
        \/ result # << >>

\* C1: whenever removeBackground returns success=true, an RGBA raster has been
\* written to the output (also when every sub-strategy of stage 5 rejects).
C1_SuccessMeansRasterWritten == Succeeded => RgbaWritten

\* C2: at most one mask is accepted and handed to applyMaskAndSave in a run,
\* and no stage runs after a stage that accepted a mask, whether or not the
\* write succeeded.
C2_AtMostOneSave ==
    /\ Len(saveCalls) <= 1
    /\ \A k \in 1..(Len(trace) - 1) : trace[k].verdict = "rejected" \/ trace[k].verdict = "threw"

\* C3: the stages start in the fixed order, each only after all earlier ones
\* reported rejection, and the method label returned names the stage whose
\* mask was written.
C3_FixedOrderAndLabel ==
    /\ \A k \in 1..Len(trace) :
        /\ trace[k].stage = StageOrder[k]
        /\ \A j \in 1..(k - 1) : trace[j].verdict \in Rejections
    /\ Succeeded =>
        /\ output # << >>
        /\ output[1].by = result[1].method
        /\ result[1].method = StageLabel(trace[Len(trace)].stage)
        /\ trace[Len(trace)].verdict \in {"saved", "fallback"}

\* C17: a failure of the encode or the write while an accepted mask is saved is
\* fatal: the cascade stops there and removeBackground returns a failure; no
\* further tolerance, stage or fallback is attempted after it.
C17_SaveFailureIsFatal ==
    writeFailures > 0 =>
        /\ pc \in {"respond", "done"}
        /\ result # << >>
        /\ ~result[1].success
        /\ trace[Len(trace)].verdict = "saveFailed"
        /\ \A k \in 1..(Len(trace) - 1) : trace[k].verdict \in {"rejected", "threw"}

\* C4 as stated: the remote classifier (when enabled) is attempted before the
\* core, its success bypasses the cascade, and whenever it fails the cascade
\* runs as the fallback.
C4_RemoteFailureRunsCascade ==
    /\ (apiEnabled /\ (pc = "local" \/ aiResult # << >>)) => apiOutcome # "none"
    /\ apiOutcome = "succeeded" => ~CascadeInvoked
    /\ (pc = "done" /\ apiOutcome = "failed") => CascadeInvoked

\* C4 amended: the remote classifier (when enabled) is attempted first and its
\* success bypasses everything else; when it fails (or is disabled) the local
\* synthesizer runs next, and the cascade is invoked exactly when the local
\* synthesizer fails as well.
C4_CascadeIffLocalFails ==
    /\ (apiEnabled /\ (pc = "local" \/ aiResult # << >>)) => apiOutcome # "none"
    /\ apiOutcome = "succeeded" => (~CascadeInvoked /\ aiResult[1].method = "remove.bg API")
    /\ apiOutcome = "failed" => (pc = "local" \/ aiResult # << >>)
    /\ CascadeInvoked <=> (aiResult # << >> /\ ~aiResult[1].success)
    /\ (pc = "done" /\ response[1].status # 400) =>
            (response[1].fallbackUsed <=> (aiResult # << >> /\ ~aiResult[1].success /\ Succeeded))

\* the remote classifier failed, the local synthesizer failed, and the cascade
\* produced the answer
C4_Witness ==
    /\ pc = "done"
    /\ apiOutcome = "failed"
    /\ CascadeInvoked
    /\ response[1].fallbackUsed

\* the uniform 50x50 scenario image
Uniform50 == input.width = 50 /\ input.height = 50 /\ input.pattern = "uniform"

\* a run of the cascade on it in which no write failed has returned
Uniform50Returned == Uniform50 /\ result # << >> /\ trace # << >> /\ writeFailures = 0

\* C5 as stated: on a uniform 50x50 image stages 1-4 each reject and only the
\* final fallback of stage 5 produces the output, a valid 50x50 RGBA raster.
C5_OnlyForcedFallbackProduces ==
    Uniform50Returned =>
        /\ Len(trace) = 5
        /\ \A k \in 1..4 : trace[k].verdict = "rejected"
        /\ Succeeded
        /\ RgbaWritten
        /\ output[1].by = StageLabel("forced")

\* C5 amended: on a uniform 50x50 image AdvancedDetection rejects (80.44% of
\* the pixels would be removed) and FloodFill accepts; the output is a valid
\* 50x50 RGBA raster written by FloodFill, with alpha 0 or 255 everywhere, and
\* nothing throws.
C5_FloodFillProduces ==
    /\ (Uniform50 /\ trace # << >>) =>
            (trace[1].stage = "advanced" /\ trace[1].verdict = "rejected")
    /\ Uniform50Returned =>
        /\ Len(trace) = 2
        /\ trace[2].stage = "flood"
        /\ trace[2].verdict = "saved"
        /\ result[1] = [success |-> TRUE, method |-> StageLabel("flood"), error |-> ""]
        /\ RgbaWritten
        /\ output[1].by = StageLabel("flood")
        /\ \A i \in 0..2499 : output[1].pixels[4 * i + 3] \in {0, 255}
        /\ 100 * RemovedPixels(AlphaOf(output[1])) > 80 * 2500

\* the cascade has returned for a uniform 50x50 image, all writes succeeding
C5_Witness == Uniform50Returned /\ Succeeded /\ output # << >>

\* the 100x100 scenario image: 20 pixel white border, 60x60 red square
Bordered100 == input.width = 100 /\ input.height = 100 /\ input.pattern = "bordered"

\* pixel i of the 100x100 image lies in the 60x60 square
InSquare100(i) ==
    /\ i % 100 >= 20
    /\ i % 100 < 80
    /\ i \div 100 >= 20
    /\ i \div 100 < 80

\* AdvancedDetection accepted the top cluster at tolerance 35, and where its
\* mask was written the border ring is transparent, the square opaque, and
\* the removed pixels form one region
Bordered100Accepted ==
    /\ trace[1].stage = "advanced"
    /\ trace[1].verdict \in {"saved", "saveFailed"}
    /\ trace[1].choice = <<[color |-> White, tolerance |-> 35]>>
    /\ trace[1].choice[1] =
            AdvancedCandidates(Decoded(input), input.width, input.height,
                               input.channels)[1]
    /\ trace[1].verdict = "saved" =>
        /\ RgbaWritten
        /\ output[1].by = StageLabel("advanced")
        /\ \A i \in 0..9999 :
                output[1].pixels[4 * i + 3] = IF InSquare100(i) THEN 255 ELSE 0
        /\ countConnectedRegions(AlphaOf(output[1]), 100, 100) = 1

\* C6 as stated: for the 100x100 bordered image AdvancedDetection accepts the
\* top corner cluster at tolerance 35; about 36% of the pixels are removed, in
\* exactly 1 region, with alpha 0 on the ring and 255 on the square.
C6_AboutThirtySixPercent ==
    (Bordered100 /\ trace # << >>) =>
        /\ Bordered100Accepted
        /\ trace[1].verdict = "saved" =>
            /\ 100 * RemovedPixels(AlphaOf(output[1])) >= 31 * 10000
            /\ 100 * RemovedPixels(AlphaOf(output[1])) <= 41 * 10000

\* C6 amended: as stated, except that the mask removes 64% of the pixels (the
\* 6400 pixels of the border ring; the square is the 36% that stay).
C6_SixtyFourPercent ==
    (Bordered100 /\ trace # << >>) =>
        /\ Bordered100Accepted
        /\ trace[1].verdict = "saved" => RemovedPixels(AlphaOf(output[1])) = 6400

\* AdvancedDetection has written its mask for the 100x100 bordered image
C6_Witness ==
    /\ Bordered100
    /\ trace # << >>
    /\ trace[1].verdict = "saved"
    /\ output # << >>

(***************************************************************************)
(* The mask helpers on their own: a run starts with an image, or with a    *)
(* mask, drawn from bounded sets, and applies the helpers to it.           *)
(***************************************************************************)
\* largest side of the images and masks the helpers are applied to
MaxHelperSide == 6

HelperImages ==
    {[width |-> w, height |-> h, channels |-> ch,
      pattern |-> p[1], a |-> p[2], b |-> p[3]] :
        w \in 1..MaxHelperSide, h \in 1..MaxHelperSide, ch \in {3, 4}, p \in Pictures}

\* the masks a run may start with
MaskKinds == {"clear", "opaque", "rows", "centre"}

GivenMask(kind, width, height) ==
    [i \in 0..(width * height - 1) |->
        CASE kind = "clear" -> 0
          [] kind = "opaque" -> 255
          [] kind = "rows" -> IF (i \div width) % 2 = 0 THEN 0 ELSE 255
          [] OTHER -> IF InZone(i % width, i \div width, width, height) THEN 0 ELSE 255]

\* the tolerances the helpers are applied with: the smallest and the largest
\* the cascade uses, and one in between
HelperTolerances == {35, 60, 110}

HelperInit ==
    /\ pc = "helpers"
    /\ apiEnabled = FALSE
    /\ apiOutcome = "none"
    /\ aiResult = << >>
    /\ trace = << >>
    /\ saveCalls = << >>
    /\ writeFailures = 0
    /\ output = << >>
    /\ result = << >>
    /\ response = << >>
    /\ \/ /\ input \in HelperImages
          /\ call = Call("image", << >>, 0, << >>, << >>, FALSE)
       \/ /\ input \in {img \in HelperImages :
                            img.channels = 3 /\ img.pattern = "uniform" /\ img.a = White}
          /\ \E kind \in MaskKinds :
                call = Call("given", << >>, 0,
                            GivenMask(kind, input.width, input.height), << >>, FALSE)

HelperUnchanged ==
    UNCHANGED <<input, apiEnabled, pc, apiOutcome, aiResult, trace, saveCalls,
                writeFailures, output, result, response>>

ApplyProtectedMask ==
    /\ pc = "helpers"
    /\ call.op = "image"
    /\ \E color \in {input.a, input.b, LightGrey}, tolerance \in HelperTolerances :
        call' = Call("createProtectedMask", color, tolerance,
                     createProtectedMask(Decoded(input), input.width, input.height,
                                         input.channels, color, tolerance),
                     << >>, FALSE)
    /\ HelperUnchanged

ApplyEnhancedProtectedMask ==
    /\ pc = "helpers"
    /\ call.op = "image"
    /\ \E color \in {input.a, input.b, LightGrey}, tolerance \in HelperTolerances :
        call' = Call("createEnhancedProtectedMask", color, tolerance,
                     createEnhancedProtectedMask(Decoded(input), input.width, input.height,
                                                 input.channels, color, tolerance),
                     << >>, FALSE)
    /\ HelperUnchanged

ApplyFloodFillMask ==
    /\ pc = "helpers"
    /\ call.op = "image"
    /\ call' = Call("createEnhancedFloodFillMask", << >>, 40,
                    createEnhancedFloodFillMask(Decoded(input), input.width, input.height,
                                                input.channels),
                    FloodFillRun(Decoded(input), input.width, input.height,
                                 input.channels).perSeed,
                    FALSE)
    /\ HelperUnchanged

ApplyValidate ==
    /\ pc = "helpers"
    /\ call.op \in {"given", "createProtectedMask", "createEnhancedProtectedMask",
                    "createEnhancedFloodFillMask"}
    /\ call' = Call("validateObjectPreservation", << >>, 0, call.mask, << >>,
                    validateObjectPreservation(call.mask, input.width, input.height))
    /\ HelperUnchanged

\* sampleBackgroundRegions(data, width, height, channels)
ApplySampleBackgroundRegions ==
    /\ pc = "helpers"
    /\ call.op = "image"
    /\ call' = [op |-> "sampleBackgroundRegions",
                samples |-> sampleBackgroundRegions(Decoded(input), input.width,
                                                    input.height, input.channels)]
    /\ HelperUnchanged

\* sampleCorners(data, width, height, channels)
ApplySampleCorners ==
    /\ pc = "helpers"
    /\ call.op = "image"
    /\ call' = [op |-> "sampleCorners",
                samples |-> sampleCorners(Decoded(input), input.width, input.height,
                                          input.channels)]
    /\ HelperUnchanged

\* the samples getCornerDominantColor collects for the four corner squares of
\* createEnhancedCornerMask (cornerSize = 0.1 m), one corner after the other
ApplyCornerSampling ==
    /\ pc = "helpers"
    /\ call.op = "image"
    /\ LET size10 == MinSide(input.width, input.height)
           corner(rx10, ry10) ==
               RegionSamples(Decoded(input), input.width, input.height, input.channels,
                             rx10, ry10, size10, rx10, ry10, 2)
       IN  call' = [op |-> "getCornerDominantColor",
                    samples |-> corner(0, 0) \o corner(10 * input.width - size10, 0)
                                \o corner(0, 10 * input.height - size10)
                                \o corner(10 * input.width - size10,
                                          10 * input.height - size10)]
    /\ HelperUnchanged

HelperNext ==
    \/ ApplyProtectedMask
    \/ ApplyEnhancedProtectedMask
    \/ ApplyFloodFillMask
    \/ ApplyValidate
    \/ ApplySampleBackgroundRegions
    \/ ApplySampleCorners
    \/ ApplyCornerSampling

HelperSpec == HelperInit /\ [][HelperNext]_vars

(***************************************************************************)
(* Properties of the mask helpers.                                         *)
(***************************************************************************)
\* the pixels of the protected zone of the image at hand
ZonePixels ==
    {i \in 0..(input.width * input.height - 1) :
        InZone(i % input.width, i \div input.width, input.width, input.height)}

\* C7: the pixels one createEnhancedFloodFillMask call absorbs, summed over
\* all seeds, never exceed 65% of width*height.
C7_GlobalCap ==
    call.op = "createEnhancedFloodFillMask" =>
        100 * RemovedPixels(call.mask) <= 65 * input.width * input.height

\* C8: in the mask createEnhancedFloodFillMask returns every pixel of the
\* protected zone is 255: the region grower never absorbs a protected pixel.
C8_ZoneNeverAbsorbed ==
    call.op = "createEnhancedFloodFillMask" =>
        \A i \in ZonePixels : call.mask[i] = 255

\* the region grower absorbed a pixel next to the protected zone, and the zone
\* pixel beside it has the very same colour
C8_Witness ==
    /\ call.op = "createEnhancedFloodFillMask"
    /\ \E i \in ZonePixels :
        /\ i + 1 \in DOMAIN call.mask
        /\ (i + 1) % input.width # 0
        /\ call.mask[i + 1] = 0
        /\ PixelAt(Decoded(input), input.channels, i)
                = PixelAt(Decoded(input), input.channels, i + 1)

\* C9: createProtectedMask and createEnhancedProtectedMask return 255 at every
\* pixel of the protected zone, whatever the image, colour and tolerance.
C9_BuildersKeepZone ==
    call.op \in {"createProtectedMask", "createEnhancedProtectedMask"} =>
        \A i \in ZonePixels : call.mask[i] = 255

\* a mask was built for the exact colour of a protected pixel: outside the
\* zone that colour was removed
C9_Witness ==
    /\ call.op \in {"createProtectedMask", "createEnhancedProtectedMask"}
    /\ \E i \in ZonePixels : PixelAt(Decoded(input), input.channels, i) = call.color
    /\ \E i \in DOMAIN call.mask : call.mask[i] = 0

\* the pixels of the central window of side 0.3 m around the image centre:
\* centerX <= x < centerX + 0.3 m and the same for y (m = min(w, h))
CentralWindow ==
    {i \in 0..(input.width * input.height - 1) :
        /\ 20 * (i % input.width) >= 10 * input.width - 3 * MinSide(input.width, input.height)
        /\ 20 * (i % input.width) < 10 * input.width + 3 * MinSide(input.width, input.height)
        /\ 20 * (i \div input.width) >= 10 * input.height - 3 * MinSide(input.width, input.height)
        /\ 20 * (i \div input.width) < 10 * input.height + 3 * MinSide(input.width, input.height)}

\* C10: validateObjectPreservation returns false for every mask in which more
\* than 12% of the pixels of the central window are 0, for every width and
\* height.
C10_CentreRemovalRejected ==
    (/\ call.op = "validateObjectPreservation"
     /\ 100 * Cardinality({i \in CentralWindow : call.mask[i] = 0})
            > 12 * Cardinality(CentralWindow))
        => ~call.accepted

(***************************************************************************)
(* The morphological filters of AIBackgroundRemover.  erode and dilate     *)
(* allocate a zero-filled result and write only the pixels with            *)
(* 1 <= x < width-1 and 1 <= y < height-1.                                 *)
(***************************************************************************)
\* pixel i is written by the filters' loops
IsInterior(i, width, height) ==
    /\ i % width >= 1
    /\ i % width < width - 1
    /\ i \div width >= 1
    /\ i \div width < height - 1

\* the mask values of the 3x3 neighbourhood of interior pixel i
Window3(mask, i, width) ==
    {mask[i + ky * width + kx] : kx \in {-1, 0, 1}, ky \in {-1, 0, 1}}

SetMin(values) == CHOOSE v \in values : \A u \in values : v <= u

SetMax(values) == CHOOSE v \in values : \A u \in values : v >= u

\* an erosion that copies the border of its input
erodeCopyingBorder(mask, width, height) ==
    [i \in 0..(width * height - 1) |->
        IF IsInterior(i, width, height) THEN SetMin(Window3(mask, i, width)) ELSE mask[i]]

erode(mask, width, height) ==
    [i \in 0..(width * height - 1) |->
        IF IsInterior(i, width, height) THEN SetMin(Window3(mask, i, width)) ELSE 0]

\* a dilation that keeps every interior pixel as it is
dilateKeeping(mask, width, height) ==
    [i \in 0..(width * height - 1) |->
        IF IsInterior(i, width, height) THEN mask[i] ELSE 0]

dilate(mask, width, height) ==
    [i \in 0..(width * height - 1) |->
        IF IsInterior(i, width, height) THEN SetMax(Window3(mask, i, width)) ELSE 0]

\* a buffer holds its bytes: the function f as the table of its values
Stored(f) == IF f = << >> THEN << >> ELSE f

\* the first half of applyMorphologicalOperations: erosion followed by dilation
Opening(mask, width, height) ==
    Stored(dilate(Stored(erode(mask, width, height)), width, height))

\* a second half that stops after its dilation
ClosingWithoutErosion(mask, width, height) ==
    Stored(dilate(mask, width, height))

\* the steps of its second half: dilation followed by erosion
Closing(mask, width, height) ==
    Stored(erode(Stored(dilate(mask, width, height)), width, height))

\* the two halves in the other order: closing first, opening second
closeThenOpen(mask, width, height) ==
    Opening(Closing(mask, width, height), width, height)

applyMorphologicalOperations(mask, width, height) ==
    Closing(Opening(mask, width, height), width, height)

(***************************************************************************)
(* The multi-layer mask synthesizer of AIBackgroundRemover.  The four      *)
(* layer scores are kept in fixed point: distances in hundredths, the      *)
(* Sobel magnitude in thirtieths, and the weighted sum in units of         *)
(* 1 / (255 * 150000), so that                                             *)
(*   score * 255 * 150000 = 450 d100 + 1250 m30 + 37500 * 255 * l2         *)
(*                          + 12 t100.                                     *)
(* probability < 0.3 is score < 0.5 - ln(7/3)/5 = 0.33054042..., that is   *)
(* fewer than 12643171.37 units.  The roots are rounded down, which moves  *)
(* a score by less than 2000 units.                                        *)
(***************************************************************************)
RECURSIVE SqrtBetween(_, _, _)
\* the s with lo <= s < hi and s*s <= n < (s+1)*(s+1), given lo*lo <= n < hi*hi
SqrtBetween(n, lo, hi) ==
    IF hi - lo <= 1 THEN lo
    ELSE IF Sq((lo + hi) \div 2) <= n THEN SqrtBetween(n, (lo + hi) \div 2, hi)
    ELSE SqrtBetween(n, lo, (lo + hi) \div 2)

\* floor(Math.sqrt(n)) for 0 <= n < 2^31
FloorSqrt(n) == SqrtBetween(n, 0, 46341)

\* 100 * the Euclidean distance of two colours, rounded down
Distance100(c, t) == FloorSqrt(10000 * EuclidDist(c, t))

\* three times the intensity (r + g + b) / 3 of pixel p
Intensity3(data, channels, p) ==
    data[p * channels] + data[p * channels + 1] + data[p * channels + 2]

sobelX == <<-1, 0, 1, -2, 0, 2, -1, 0, 1>>

sobelY == <<-1, -2, -1, 0, 0, 0, 1, 2, 1>>

\* the pixel at offset k (0..8, row-major) of the 3x3 neighbourhood of pixel i
Neighbour3(i, k, width) == i + ((k \div 3) - 1) * width + (k % 3) - 1

RECURSIVE SumOver(_, _, _)
\* f(lo) + ... + f(hi)
SumOver(f(_), lo, hi) == IF lo > hi THEN 0 ELSE f(lo) + SumOver(f, lo + 1, hi)

\* the score every layer leaves at the pixels its loops do not reach
\* (Float32Array is zero-filled)
InsideBy(i, margin, width, height) ==
    /\ i % width >= margin
    /\ i % width < width - margin
    /\ i \div width >= margin
    /\ i \div width < height - margin

\* analyzeColorClusters of AIBackgroundRemover for one pixel: 100 * minDistance
\* to the colours of the sampled points
ColorClusterDistance100(data, channels, i, samples) ==
    SetMin({Distance100(PixelAt(data, channels, i), c) : c \in samples})

\* analyzeEdgeComplexity for one pixel: 30 * magnitude
analyzeEdgeComplexity(data, width, height, channels, i) ==
    IF ~InsideBy(i, 1, width, height) THEN 0
    ELSE LET gx3 == SumOver(LAMBDA k :
                        Intensity3(data, channels, Neighbour3(i, k, width)) * sobelX[k + 1],
                        0, 8)
             gy3 == SumOver(LAMBDA k :
                        Intensity3(data, channels, Neighbour3(i, k, width)) * sobelY[k + 1],
                        0, 8)
         IN  FloorSqrt(100 * (Sq(gx3) + Sq(gy3)))

\* analyzeTexturePatterns for one pixel: 37500 * 255 * min(variance / (8 * 255^2), 1),
\* rounded down, with 9 * variance the sum of the squared differences of the
\* tripled intensities
analyzeTexturePatterns(data, width, height, channels, i) ==
    IF ~InsideBy(i, 1, width, height) THEN 0
    ELSE LET v9 == SumOver(LAMBDA k :
                        Sq(Intensity3(data, channels, Neighbour3(i, k, width))
                            - Intensity3(data, channels, i)),
                        0, 8)
         IN  IF v9 >= 72 * 65025 THEN 37500 * 255
             ELSE (v9 \div 306) * 625 + ((v9 % 306) * 625) \div 306

\* analyzeSpatialCoherence for one pixel: 100 * totalDifference over the 5x5
\* neighbourhood
analyzeSpatialCoherence(data, width, height, channels, i) ==
    IF ~InsideBy(i, 2, width, height) THEN 0
    ELSE SumOver(LAMBDA k :
                    Distance100(PixelAt(data, channels, i),
                                PixelAt(data, channels,
                                        i + ((k \div 5) - 2) * width + (k % 5) - 2)),
                 0, 24)

\* backgroundScore * 255 * 150000 of pixel i
BackgroundScoreUnits(data, width, height, channels, i, samples) ==
    450 * ColorClusterDistance100(data, channels, i, samples)
        + 1250 * analyzeEdgeComplexity(data, width, height, channels, i)
        + analyzeTexturePatterns(data, width, height, channels, i)
        + 12 * analyzeSpatialCoherence(data, width, height, channels, i)

\* (0.5 - ln(7/3)/5) * 255 * 150000, rounded down
ScoreThreshold == 12643171

\* the thresholded mask before the morphological clean-up
ThresholdedMask(data, width, height, channels, samples) ==
    [i \in 0..(width * height - 1) |->
        IF BackgroundScoreUnits(data, width, height, channels, i, samples) <= ScoreThreshold
        THEN 0 ELSE 255]

\* createEnhancedAIMask, given the colours of the points Math.random() picked
createEnhancedAIMask(data, width, height, channels, samples) ==
    applyMorphologicalOperations(
        Stored(ThresholdedMask(data, width, height, channels, samples)), width, height)

\* the colours the 1000 sampled points can have: the 1000 points are drawn
\* with Math.random(), so they cover any non-empty set of up to 1000 pixels
SampleSets(data, width, height, channels) ==
    {colours \in SUBSET {PixelAt(data, channels, i) : i \in 0..(width * height - 1)} :
        colours # {}}

(***************************************************************************)
(* The mask operations on given masks: a run starts with a mask drawn from *)
(* a bounded set and applies the validator, the statistics and the         *)
(* morphological filters to it.                                            *)
(***************************************************************************)
\* largest side of the small given masks
MaxMaskSide == 6

\* the image a small given mask belongs to (only its size matters)
MaskShapes ==
    {[width |-> w, height |-> h, channels |-> 3, pattern |-> "uniform",
      a |-> White, b |-> White] : w \in 1..MaxMaskSide, h \in 1..MaxMaskSide}

\* a given mask of a kind with pixel `flip` inverted (flip = -1: none)
FlippedMask(kind, width, height, flip) ==
    [i \in 0..(width * height - 1) |->
        IF i = flip THEN 255 - GivenMask(kind, width, height)[i]
        ELSE GivenMask(kind, width, height)[i]]

\* the 100x100 scenario image: 20 pixel white border, 60x60 red square
BorderedScenario ==
    [width |-> 100, height |-> 100, channels |-> 3, pattern |-> "bordered",
     a |-> White, b |-> Red]

\* the rows and columns at which the rectangles zeroed inside the square start
\* and end
Cuts == {20, 35, 40, 46, 80}

\* the rectangles [x0, x1) x [y0, y1) inside the square, and the empty one
Rectangles ==
    {[x0 |-> 0, x1 |-> 0, y0 |-> 0, y1 |-> 0]}
        \cup {r \in [x0 : Cuts, x1 : Cuts, y0 : Cuts, y1 : Cuts] :
                r.x0 < r.x1 /\ r.y0 < r.y1}

InRectangle(r, x, y) == x >= r.x0 /\ x < r.x1 /\ y >= r.y0 /\ y < r.y1

\* the mask that zeroes the border ring of the scenario image and rectangle r
RingMask(r) ==
    [i \in 0..9999 |->
        IF ~InSquare100(i) \/ InRectangle(r, i % 100, i \div 100) THEN 0 ELSE 255]

MaskInit ==
    /\ pc = "masks"
    /\ apiEnabled = FALSE
    /\ apiOutcome = "none"
    /\ aiResult = << >>
    /\ trace = << >>
    /\ saveCalls = << >>
    /\ writeFailures = 0
    /\ output = << >>
    /\ result = << >>
    /\ response = << >>
    /\ \/ /\ input \in MaskShapes
          /\ \E kind \in MaskKinds, flip \in -1..(input.width * input.height - 1) :
                call = [op |-> "given",
                        mask |-> FlippedMask(kind, input.width, input.height, flip)]
       \/ /\ input = BorderedScenario
          /\ \E r \in Rectangles :
                call = [op |-> "given", mask |-> RingMask(r)]

\* validateObjectPreservation(mask, width, height) on the given mask
ValidateGiven ==
    /\ pc = "masks"
    /\ call.op = "given"
    /\ call' = [op |-> "validateObjectPreservation", mask |-> call.mask,
                accepted |-> validateObjectPreservation(call.mask, input.width,
                                                        input.height)]
    /\ HelperUnchanged

\* analyzeMaskStatistics(mask) on the given mask.  Math.sqrt(mask.length) is
\* an integer for the masks taken here: a fractional root makes the region
\* walk depend on floating-point rounding
AnalyzeStatistics ==
    /\ pc = "masks"
    /\ call.op = "given"
    /\ input \in MaskShapes
    /\ IsSquareNumber(Cardinality(DOMAIN call.mask))
    /\ call' = [op |-> "analyzeMaskStatistics", mask |-> call.mask,
                stats |-> analyzeMaskStatistics(call.mask)]
    /\ HelperUnchanged

\* applyMorphologicalOperations(mask, width, height) on the given mask
ApplyMorphology ==
    /\ pc = "masks"
    /\ call.op = "given"
    /\ input \in MaskShapes
    /\ call' = [op |-> "applyMorphologicalOperations", mask |-> call.mask,
                filtered |-> applyMorphologicalOperations(call.mask, input.width,
                                                          input.height)]
    /\ HelperUnchanged

\* checkForProblematicHoles(mask, width, height) on the given mask
CheckHoles ==
    /\ pc = "masks"
    /\ call.op = "given"
    /\ input \in MaskShapes
    /\ call' = [op |-> "checkForProblematicHoles", mask |-> call.mask,
                holes |-> checkForProblematicHoles(call.mask, input.width, input.height)]
    /\ HelperUnchanged

\* the record of a filter applied to the given mask
Filtered(op, filtered) == [op |-> op, mask |-> call.mask, filtered |-> filtered]

Erode ==
    /\ pc = "masks"
    /\ call.op = "given"
    /\ input \in MaskShapes
    /\ call' = Filtered("erode", erode(call.mask, input.width, input.height))
    /\ HelperUnchanged

Dilate ==
    /\ pc = "masks"
    /\ call.op = "given"
    /\ input \in MaskShapes
    /\ call' = Filtered("dilate", dilate(call.mask, input.width, input.height))
    /\ HelperUnchanged

\* the first composition applyMorphologicalOperations makes of the filters
ApplyOpening ==
    /\ pc = "masks"
    /\ call.op = "given"
    /\ input \in MaskShapes
    /\ call' = Filtered("opening", Opening(call.mask, input.width, input.height))
    /\ HelperUnchanged

\* the second composition
ApplyClosing ==
    /\ pc = "masks"
    /\ call.op = "given"
    /\ input \in MaskShapes
    /\ call' = Filtered("closing", Closing(call.mask, input.width, input.height))
    /\ HelperUnchanged

MaskNext ==
    \/ ValidateGiven
    \/ AnalyzeStatistics
    \/ Erode
    \/ Dilate
    \/ ApplyOpening
    \/ ApplyClosing
    \/ CheckHoles
    \/ ApplyMorphology

MaskSpec == MaskInit /\ [][MaskNext]_vars

(***************************************************************************)
(* Properties of the mask operations.                                      *)
(***************************************************************************)
\* the validator has answered for a mask of the 100x100 scenario image that
\* zeroes the whole border ring
RingValidated ==
    /\ call.op = "validateObjectPreservation"
    /\ input = BorderedScenario
    /\ \A i \in 0..9999 : ~InSquare100(i) => call.mask[i] = 0

\* the pixels of the 60x60 square the mask zeroes
SquareZeros == Cardinality({i \in 0..9999 : InSquare100(i) /\ call.mask[i] = 0})

\* the pixels of the central 30x30 window the mask zeroes
WindowZeros == Cardinality({i \in CentralWindow : call.mask[i] = 0})

\* C11 as stated: on the 100x100 scenario image the validator accepts the mask
\* that zeroes exactly the border ring and rejects every mask that zeroes the
\* ring plus more than 12% of the 60x60 square, wherever those pixels lie.
C11_RejectsAnywhereInSquare ==
    RingValidated =>
        /\ SquareZeros = 0 => call.accepted
        /\ 100 * SquareZeros > 12 * 3600 => ~call.accepted

\* C11 amended: the validator accepts the ring-only mask, and it rejects a
\* mask that zeroes the ring and part of the square exactly when more than 12%
\* of the central 30x30 window (columns and rows 35..64) is zeroed; pixels of
\* the square outside that window do not count.
C11_RejectsByCentralWindow ==
    RingValidated =>
        /\ SquareZeros = 0 => call.accepted
        /\ call.accepted <=> 100 * WindowZeros <= 12 * 900
        /\ Cardinality(CentralWindow) = 900

\* the validator has rejected a mask that zeroes the ring, more than 12% of
\* the square and more than 12% of the central window
C11_Witness ==
    /\ RingValidated
    /\ 100 * SquareZeros > 12 * 3600
    /\ 100 * WindowZeros > 12 * 900
    /\ ~call.accepted

\* the maximal 4-connected sets of zero pixels of the mask in its own
\* width x height row-major geometry
TrueRegions ==
    {RegionOf(q, call.mask, 0, input.width, input.height) :
        q \in {i \in DOMAIN call.mask : call.mask[i] = 0}}

\* C12: for a mask of any width x height the connectedRegions value returned
\* by analyzeMaskStatistics is the number of maximal 4-connected sets of zero
\* pixels of the mask in its true row-major geometry.
C12_RegionsInTrueGeometry ==
    call.op = "analyzeMaskStatistics" =>
        call.stats.connectedRegions = Cardinality(TrueRegions)

\* pixel p of the given mask is a single isolated pixel of value v: its eight
\* neighbours all have the other value, and it lies at least `margin` pixels
\* from every border
Isolated(p, v, margin) ==
    /\ p % input.width >= margin
    /\ p % input.width < input.width - margin
    /\ p \div input.width >= margin
    /\ p \div input.width < input.height - margin
    /\ call.mask[p] = v
    /\ \A kx \in {-1, 0, 1}, ky \in {-1, 0, 1} :
            (kx # 0 \/ ky # 0) => call.mask[p + ky * input.width + kx] = 255 - v

\* C13 as stated: opening turns a single isolated background pixel (0)
\* surrounded by foreground into foreground, and closing turns a single
\* isolated foreground pixel (255) inside background into background, away
\* from the border.
C13_OpeningFillsClosingClears ==
    \A p \in DOMAIN call.mask :
        /\ (call.op = "opening" /\ Isolated(p, 0, 2)) => call.filtered[p] = 255
        /\ (call.op = "closing" /\ Isolated(p, 255, 2)) => call.filtered[p] = 0

\* C13 amended: the roles are the other way round.  Opening (erode then
\* dilate) turns a single isolated foreground pixel (255) inside background
\* into background, and leaves an isolated background pixel 0; closing (dilate
\* then erode) turns a single isolated background pixel (0) surrounded by
\* foreground into foreground, for pixels at least two pixels from the border,
\* and leaves an isolated foreground pixel 255.
C13_OpeningClearsClosingFills ==
    \A p \in DOMAIN call.mask :
        /\ (call.op = "opening" /\ Isolated(p, 255, 1)) => call.filtered[p] = 0
        /\ (call.op = "opening" /\ Isolated(p, 0, 1)) => call.filtered[p] = 0
        /\ (call.op = "closing" /\ Isolated(p, 0, 2)) => call.filtered[p] = 255
        /\ (call.op = "closing" /\ Isolated(p, 255, 2)) => call.filtered[p] = 255

\* closing has filled an isolated background pixel in a mask that opening
\* would have left with the hole
C13_Witness ==
    /\ call.op = "closing"
    /\ \E p \in DOMAIN call.mask :
        /\ Isolated(p, 0, 2)
        /\ call.filtered[p] = 255
        /\ Opening(call.mask, input.width, input.height)[p] = 0

\* the pixels of the first and last row and column
BorderPixels ==
    {i \in 0..(input.width * input.height - 1) : ~IsInterior(i, input.width, input.height)}

\* C14 as stated: every border pixel of the output of erode and of dilate
\* equals the same pixel of the input.
C14_BorderCopiedThrough ==
    call.op \in {"erode", "dilate"} =>
        \A i \in BorderPixels : call.filtered[i] = call.mask[i]

\* C14 amended: erode and dilate do not compute the border pixels, and they
\* do not copy them either: every border pixel of the output is 0, whatever
\* the input (the output buffer is allocated zero-filled).
C14_BorderZeroed ==
    call.op \in {"erode", "dilate"} =>
        \A i \in BorderPixels : call.filtered[i] = 0

\* a filter was applied to a mask with a 255 border pixel
C14_Witness ==
    /\ call.op \in {"erode", "dilate"}
    /\ \E i \in BorderPixels : call.mask[i] = 255 /\ call.filtered[i] = 0
    /\ \E i \in DOMAIN call.mask : call.filtered[i] = 255

(***************************************************************************)
(* The mask synthesizer run repeatedly on one buffer.                      *)
(***************************************************************************)
\* largest side of the buffers the synthesizer is run on
MaxSynthSide == 6

\* the runs made on one buffer
MaxRuns == 2

\* the buffers: four channels, as decoded after ensureAlpha()
SynthImages ==
    {[width |-> w, height |-> h, channels |-> 4,
      pattern |-> p[1], a |-> p[2], b |-> p[3]] :
        w \in 1..MaxSynthSide, h \in 1..MaxSynthSide, p \in Pictures}

SynthInit ==
    /\ pc = "synth"
    /\ apiEnabled = FALSE
    /\ apiOutcome = "none"
    /\ aiResult = << >>
    /\ trace = << >>
    /\ saveCalls = << >>
    /\ writeFailures = 0
    /\ output = << >>
    /\ result = << >>
    /\ response = << >>
    /\ input \in SynthImages
    /\ call = [op |-> "buffer", runs |-> << >>]

\* one more run of createEnhancedAIMask(data, info) on the same buffer; the
\* process has no seed to set, each run draws its own sample points
CreateEnhancedAIMask ==
    /\ pc = "synth"
    /\ Len(call.runs) < MaxRuns
    /\ \E samples \in SampleSets(Decoded(input), input.width, input.height, input.channels) :
        call' = [op |-> "createEnhancedAIMask",
                 runs |-> Append(call.runs,
                    [samples |-> samples,
                     mask |-> createEnhancedAIMask(Decoded(input), input.width,
                                 input.height, input.channels, samples)])]
    /\ HelperUnchanged

SynthNext == CreateEnhancedAIMask

SynthSpec == SynthInit /\ [][SynthNext]_vars

\* C15: two runs of createEnhancedAIMask on the same input buffer produce
\* byte-identical masks (the sample points come from a source that can be
\* seeded, and both runs use the same seed).
C15_RunsAgree ==
    call.op = "createEnhancedAIMask" =>
        \A j \in 1..Len(call.runs), k \in 1..Len(call.runs) :
            call.runs[j].mask = call.runs[k].mask

(***************************************************************************)
(* The two compositors on their own: a run starts with a decoded image and *)
(* a mask of its dimensions and composites them.                           *)
(***************************************************************************)
\* largest side of the images the compositors are applied to
MaxCompositeSide == 4

CompositeImages ==
    {[width |-> w, height |-> h, channels |-> ch,
      pattern |-> p[1], a |-> p[2], b |-> p[3]] :
        w \in 1..MaxCompositeSide, h \in 1..MaxCompositeSide,
        ch \in {3, 4}, p \in Pictures}

\* the RGBA buffer applyEnhancedMask builds from the re-decoded original: it
\* reads pixel idx at originalData[idx * 3], whatever the channel count
applyEnhancedMask(originalData, mask, width, height) ==
    [k \in 0..(width * height * 4 - 1) |->
        IF k % 4 = 3 THEN mask[k \div 4] ELSE originalData[(k \div 4) * 3 + (k % 4)]]

CompositeInit ==
    /\ pc = "composite"
    /\ apiEnabled = FALSE
    /\ apiOutcome = "none"
    /\ aiResult = << >>
    /\ trace = << >>
    /\ saveCalls = << >>
    /\ writeFailures = 0
    /\ output = << >>
    /\ result = << >>
    /\ response = << >>
    /\ input \in CompositeImages
    /\ \E kind \in MaskKinds :
        call = [op |-> "given", mask |-> GivenMask(kind, input.width, input.height)]

\* applyMaskAndSave up to the encode: the buffer handed to sharp
ApplyMaskAndSave ==
    /\ pc = "composite"
    /\ call.op = "given"
    /\ call' = [op |-> "applyMaskAndSave", mask |-> call.mask,
                raster |-> RgbaBuffer(Decoded(input), call.mask, input.width,
                                      input.height, input.channels)]
    /\ HelperUnchanged

\* applyEnhancedMask up to the encode: the buffer handed to sharp
ApplyEnhancedMask ==
    /\ pc = "composite"
    /\ call.op = "given"
    /\ call' = [op |-> "applyEnhancedMask", mask |-> call.mask,
                raster |-> applyEnhancedMask(Decoded(input), call.mask, input.width,
                                             input.height)]
    /\ HelperUnchanged

CompositeNext ==
    \/ ApplyMaskAndSave
    \/ ApplyEnhancedMask

CompositeSpec == CompositeInit /\ [][CompositeNext]_vars

\* C16: for a source raster of 3 or 4 channels and a mask of its dimensions,
\* the composited RGBA raster has at every pixel i the first three channels of
\* source pixel i in channels 0-2 and mask[i] in channel 3, for applyMaskAndSave
\* and for applyEnhancedMask alike.
C16_CompositeCopiesSource ==
    call.op \in {"applyMaskAndSave", "applyEnhancedMask"} =>
        \A i \in 0..(input.width * input.height - 1) :
            /\ \A c \in 0..2 :
                call.raster[4 * i + c] = Decoded(input)[i * input.channels + c]
            /\ call.raster[4 * i + 3] = call.mask[i]

(***************************************************************************)
(* Two runs of ImageProcessor.removeBackground on one decoded raster: the  *)
(* first run's stages, result and output are kept and the cascade runs     *)
(* again on the same input.                                                *)
(***************************************************************************)
TwoRunImages == {img \in SmallImages : IsSquareNumber(img.width * img.height)}

TwoRunInit ==
    /\ input \in TwoRunImages
    /\ apiEnabled = FALSE
    /\ pc = "decode"
    /\ apiOutcome = "none"
    /\ aiResult = << >>
    /\ trace = << >>
    /\ saveCalls = << >>
    /\ writeFailures = 0
    /\ output = << >>
    /\ result = << >>
    /\ response = << >>
    /\ call = [op |-> "removeBackground", earlier |-> << >>]

\* removeBackground has returned once; it is invoked again on the same input
\* (with a fresh output path)
RunAgain ==
    /\ pc = "respond"
    /\ call.earlier = << >>
    /\ call' = [op |-> "removeBackground",
                earlier |-> <<[trace |-> trace, result |-> result, output |-> output]>>]
    /\ pc' = "decode"
    /\ trace' = << >>
    /\ saveCalls' = << >>
    /\ output' = << >>
    /\ result' = << >>
    /\ UNCHANGED <<input, apiEnabled, apiOutcome, aiResult, writeFailures, response>>

TwoRunNext ==
    \/ Decode
    \/ AdvancedDetection
    \/ FloodFill
    \/ StatisticalSeparation
    \/ EdgeProcessing
    \/ ForcedRemoval
    \/ RunAgain

TwoRunSpec == TwoRunInit /\ [][TwoRunNext]_vars

\* what the environment contributed to a stage: whether a write or the edge
\* pipeline failed, and the edge buffer the pipeline produced
EnvironmentOf(entry) ==
    [failure |-> IF entry.verdict \in {"saveFailed", "fallback", "failed", "threw"}
                 THEN entry.verdict ELSE "",
     edge |-> IF entry.stage = "edge" THEN entry.choice ELSE << >>]

\* both runs have returned
BothReturned == pc = "respond" /\ call.earlier # << >>

\* the decode, the writes and the edge pipeline behaved alike in both runs, as
\* far as both runs got
SameEnvironment ==
    /\ (trace = << >>) <=> (call.earlier[1].trace = << >>)
    /\ \A k \in 1..Min2(Len(trace), Len(call.earlier[1].trace)) :
        EnvironmentOf(trace[k]) = EnvironmentOf(call.earlier[1].trace[k])

MaxBufferSide == 4

\* most builder calls in one run
MaxBuilderCalls == 2

BufferImages ==
    {[width |-> w, height |-> h, channels |-> ch,
      pattern |-> p[1], a |-> p[2], b |-> p[3]] :
        w \in 1..MaxBufferSide, h \in 1..MaxBufferSide, ch \in {3, 4}, p \in Pictures}

BufferInit ==
    /\ pc = "builders"
    /\ apiEnabled = FALSE
    /\ apiOutcome = "none"
    /\ aiResult = << >>
    /\ trace = << >>
    /\ saveCalls = << >>
    /\ writeFailures = 0
    /\ output = << >>
    /\ result = << >>
    /\ response = << >>
    /\ input \in BufferImages
    /\ call = [op |-> "builders", heap |-> <<Decoded(input)>>, returned |-> << >>]

\* a builder that allocates its mask (const mask = Buffer.alloc(...)), writes
\* only mask[i] and returns the mask
Allocating(builder, mask) ==
    [op |-> "builders",
     heap |-> Append(call.heap, mask),
     returned |-> Append(call.returned,
                         [builder |-> builder, buffer |-> Len(call.heap) + 1,
                          existing |-> Len(call.heap)])]

\* createProtectedMask writing its result over the source bytes and returning
\* the source buffer
BuildProtectedMaskInSource ==
    /\ pc = "builders"
    /\ Len(call.returned) < MaxBuilderCalls
    /\ \E tolerance \in {35, 110} :
        LET mask == createProtectedMask(call.heap[1], input.width, input.height,
                                        input.channels, input.a, tolerance)
        IN  call' = [op |-> "builders",
                     heap |-> [call.heap EXCEPT ![1] =
                                  [k \in DOMAIN call.heap[1] |->
                                      IF k \in DOMAIN mask THEN mask[k] ELSE call.heap[1][k]]],
                     returned |-> Append(call.returned,
                                         [builder |-> "createProtectedMask", buffer |-> 1,
                                          existing |-> Len(call.heap)])]
    /\ HelperUnchanged

BuildProtectedMask ==
    /\ pc = "builders"
    /\ Len(call.returned) < MaxBuilderCalls
    /\ \E tolerance \in {35, 110} :
        call' = Allocating("createProtectedMask",
                           createProtectedMask(call.heap[1], input.width, input.height,
                                               input.channels, input.a, tolerance))
    /\ HelperUnchanged

BuildEnhancedProtectedMask ==
    /\ pc = "builders"
    /\ Len(call.returned) < MaxBuilderCalls
    /\ \E tolerance \in {35, 110} :
        call' = Allocating("createEnhancedProtectedMask",
                           createEnhancedProtectedMask(call.heap[1], input.width,
                               input.height, input.channels, input.a, tolerance))
    /\ HelperUnchanged

BuildFloodFillMask ==
    /\ pc = "builders"
    /\ Len(call.returned) < MaxBuilderCalls
    /\ call' = Allocating("createEnhancedFloodFillMask",
                          createEnhancedFloodFillMask(call.heap[1], input.width,
                              input.height, input.channels))
    /\ HelperUnchanged

BuildLightBackgroundMask ==
    /\ pc = "builders"
    /\ Len(call.returned) < MaxBuilderCalls
    /\ call' = Allocating("createLightBackgroundMask",
                          createLightBackgroundMask(call.heap[1], input.width,
                              input.height, input.channels))
    /\ HelperUnchanged

BuildCornerMask ==
    /\ pc = "builders"
    /\ Len(call.returned) < MaxBuilderCalls
    /\ call' = Allocating("createEnhancedCornerMask",
                          createEnhancedCornerMask(call.heap[1], input.width,
                              input.height, input.channels))
    /\ HelperUnchanged

BuildEdgeMask ==
    /\ pc = "builders"
    /\ Len(call.returned) < MaxBuilderCalls
    /\ \E kind \in EdgeBuffers :
        call' = Allocating("createEnhancedEdgeMask",
                           createEnhancedEdgeMask(call.heap[1],
                               EdgeBuffer(kind, input.width * input.height),
                               input.width, input.height, input.channels))
    /\ HelperUnchanged

BufferNext ==
    \/ BuildProtectedMask
    \/ BuildEnhancedProtectedMask
    \/ BuildFloodFillMask
    \/ BuildLightBackgroundMask
    \/ BuildCornerMask
    \/ BuildEdgeMask

BufferSpec == BufferInit /\ [][BufferNext]_vars

MaxStageSide == 5

\* the pictures of the cascade and two with colours 25 apart
StagePictures ==
    Pictures \cup {<<"bordered", White, LightGrey>>, <<"halves", LightGrey, White>>}

\* a 40x40 image whose corner samples are mostly white although white covers
\* under 15% of it: white at the even columns of the even rows 0..20, red elsewhere
StageScenarios ==
    {[width |-> 40, height |-> 40, channels |-> 3,
      pattern |-> "dotted", a |-> White, b |-> Red]}

StageImages ==
    {[width |-> w, height |-> h, channels |-> ch,
      pattern |-> p[1], a |-> p[2], b |-> p[3]] :
        w \in 1..MaxStageSide, h \in 1..MaxStageSide, ch \in {3, 4}, p \in StagePictures}
    \cup StageScenarios

StageInit ==
    /\ pc = "stage"
    /\ apiEnabled = FALSE
    /\ apiOutcome = "none"
    /\ aiResult = << >>
    /\ trace = << >>
    /\ saveCalls = << >>
    /\ writeFailures = 0
    /\ output = << >>
    /\ result = << >>
    /\ response = << >>
    /\ input \in StageImages
    /\ call = [op |-> "image", mask |-> << >>]

\* the stage up to the save: the mask it accepts, if any
ApplyStatisticalSeparation ==
    /\ pc = "stage"
    /\ call.op = "image"
    /\ call' = [op |-> "statisticalBackgroundSeparation",
                mask |-> statisticalBackgroundSeparation(Decoded(input), input.width,
                                                         input.height, input.channels)]
    /\ HelperUnchanged

\* advancedBackgroundDetection up to the save: the pair it accepts and its
\* mask, if any (on images whose pixel count is a perfect square, so that
\* analyzeMaskStatistics reads the mask in a whole-numbered geometry)
ApplyAdvancedDetection ==
    /\ pc = "stage"
    /\ call.op = "image"
    /\ IsSquareNumber(input.width * input.height)
    /\ call' = [op |-> "advancedBackgroundDetection",
                choice |-> AdvancedChoice(Decoded(input), input.width, input.height,
                                          input.channels),
                mask |-> advancedBackgroundDetection(Decoded(input), input.width,
                                                     input.height, input.channels)]
    /\ HelperUnchanged

\* the try block of forceBackgroundRemoval up to the save: whether the
\* candidate loop was entered, the sub-strategy that accepted and its mask
ApplyForcedRemoval ==
    /\ pc = "stage"
    /\ call.op = "image"
    /\ LET forced == forceBackgroundRemoval(Decoded(input), input.width, input.height,
                                            input.channels)
       IN  call' = [op |-> "forceBackgroundRemoval",
                    attempted |-> findMostLikelyBackgroundColor(Decoded(input), input.width,
                                      input.height, input.channels) # << >>,
                    sub |-> forced.sub,
                    mask |-> forced.mask]
    /\ HelperUnchanged

StageNext ==
    \/ ApplyStatisticalSeparation
    \/ ApplyAdvancedDetection
    \/ ApplyForcedRemoval

StageSpec == StageInit /\ [][StageNext]_vars

\* what the stage is to return when its masks come from Builder: the mask of
\* the first (dominant colour, tolerance) pair, over the dominant colours with
\* frequency >= 8% and score >= 0.5 and the tolerances 40, 60, 80, 100, whose
\* mask removes 15% to 80% and passes the validator; nothing when there is none
StatisticalOutcome(Builder(_, _, _, _, _, _)) ==
    LET data == Decoded(input)
        dominant == findDominantColors(data, input.width, input.height, input.channels, 7)
        tolerances == <<40, 60, 80, 100>>
        MaskOf(p) == Builder(data, input.width, input.height, input.channels,
                             dominant[p[1]].color, tolerances[p[2]])
        accepted ==
            {p \in (1..Len(dominant)) \X (1..4) :
                /\ 100 * dominant[p[1]].count >= 8 * input.width * input.height
                /\ ScoreAtLeastHalf(data, input.width, input.height, input.channels,
                                    dominant[p[1]].color)
                /\ PercentWithin(MaskOf(p), 15, 80)
                /\ validateObjectPreservation(MaskOf(p), input.width, input.height)}
        first == CHOOSE p \in accepted :
                    \A q \in accepted : p[1] < q[1] \/ (p[1] = q[1] /\ p[2] <= q[2])
    IN  IF accepted = {} THEN << >> ELSE <<MaskOf(first)>>

\* C20 as stated: statisticalBackgroundSeparation builds every candidate mask
\* with createEnhancedProtectedMask, so the mask it accepts is that builder's
\* output for the first dominant colour (frequency >= 8%, score >= 0.5) and
\* tolerance whose mask removes 15% to 80% and passes the validator.
C20_StatisticalUsesEnhancedBuilder ==
    call.op = "statisticalBackgroundSeparation" =>
        call.mask = StatisticalOutcome(createEnhancedProtectedMask)

\* C20: statisticalBackgroundSeparation builds every candidate mask with
\* createProtectedMask (full removal up to 0.6*T, ramp up to T everywhere
\* outside the protected zone); the mask it accepts is that builder's output
\* for the first dominant colour (frequency >= 8%, score >= 0.5) and tolerance
\* whose mask removes 15% to 80% and passes the validator.
C20_StatisticalUsesPlainBuilder ==
    call.op = "statisticalBackgroundSeparation" =>
        call.mask = StatisticalOutcome(createProtectedMask)

\* the stage accepted a mask with a ramp value in it
C20_Witness ==
    /\ call.op = "statisticalBackgroundSeparation"
    /\ call.mask # << >>
    /\ \E i \in DOMAIN call.mask[1] : call.mask[1][i] \notin {0, 255}

\* the clusters advancedBackgroundDetection iterates over
ClustersOfInput ==
    analyzeColorClusters(sampleBackgroundRegions(Decoded(input), input.width,
                                                 input.height, input.channels))

\* the mask of cluster p[1] at the p[2]-th tolerance of 35, 55, 75, 95
AdvancedMaskOf(p) ==
    createProtectedMask(Decoded(input), input.width, input.height, input.channels,
                        ClustersOfInput[p[1]].color, <<35, 55, 75, 95>>[p[2]])

\* the (cluster, tolerance) pairs whose mask meets all three conditions
AdvancedAccepted ==
    {p \in (1..Len(ClustersOfInput)) \X (1..4) :
        /\ PercentWithin(AdvancedMaskOf(p), 15, 80)
        /\ analyzeMaskStatistics(AdvancedMaskOf(p)).connectedRegions <= 6
        /\ validateObjectPreservation(AdvancedMaskOf(p), input.width, input.height)}

CornerColorOfInput ==
    getMostFrequentColor(sampleCorners(Decoded(input), input.width, input.height,
                                       input.channels))

\* that colour covers at least 15% of the image within distance 50
CornerColorCovers ==
    /\ CornerColorOfInput # << >>
    /\ 100 * calculateColorCoverage(Decoded(input), input.width, input.height,
                                    input.channels, CornerColorOfInput[1], 50)
         >= 15 * input.width * input.height

\* what forceBackgroundRemoval is to hand to the save when its corner-colour
\* step is attempted or not: the corner-colour mask at the first of 50, 70, 90,
\* 110 with 10-80% removed and the validator passing; else the light mask at
\* 8-70% with the validator passing; else the per-corner mask at >= 5%
ForcedOutcome(attempted) ==
    LET data == Decoded(input)
        CandidateMask(n) ==
            createEnhancedProtectedMask(data, input.width, input.height, input.channels,
                                        CornerColorOfInput[1], <<50, 70, 90, 110>>[n])
        accepted == IF ~attempted THEN {}
                    ELSE {n \in 1..4 :
                            /\ PercentWithin(CandidateMask(n), 10, 80)
                            /\ validateObjectPreservation(CandidateMask(n), input.width,
                                                          input.height)}
        lightMask == createLightBackgroundMask(data, input.width, input.height,
                                               input.channels)
        cornerMask == createEnhancedCornerMask(data, input.width, input.height,
                                               input.channels)
    IN  IF accepted # {}
        THEN [sub |-> "candidate",
              mask |-> <<CandidateMask(CHOOSE n \in accepted : \A k \in accepted : n <= k)>>]
        ELSE IF /\ PercentWithin(lightMask, 8, 70)
                /\ validateObjectPreservation(lightMask, input.width, input.height)
        THEN [sub |-> "light", mask |-> <<lightMask>>]
        ELSE IF 100 * RemovedPixels(cornerMask) >= 5 * input.width * input.height
        THEN [sub |-> "corner", mask |-> <<cornerMask>>]
        ELSE [sub |-> "none", mask |-> << >>]

\* C22 as stated: inside forceBackgroundRemoval the corner-colour step (50, 70,
\* 90, 110; 10-80% plus validator), the light mask (8-70% plus validator) and
\* the per-corner mask (>= 5%, no validator) run in that order, a later one
\* writing only if every earlier one rejected, and the corner-colour step is
\* attempted whenever a most frequent corner colour exists.
C22_CornerStepWheneverColourExists ==
    call.op = "forceBackgroundRemoval" =>
        /\ call.attempted <=> (CornerColorOfInput # << >>)
        /\ [sub |-> call.sub, mask |-> call.mask] = ForcedOutcome(CornerColorOfInput # << >>)

\* C22: inside forceBackgroundRemoval the corner-colour step, the light mask
\* and the per-corner mask run in that order with those acceptance tests, a
\* later one writing only if every earlier one rejected; the corner-colour step
\* is attempted exactly when a most frequent corner colour exists and covers at
\* least 15% of the image within colour distance 50.
C22_CornerStepWhenColourCovers ==
    call.op = "forceBackgroundRemoval" =>
        /\ call.attempted <=> CornerColorCovers
        /\ [sub |-> call.sub, mask |-> call.mask] = ForcedOutcome(CornerColorCovers)

\* a real corner colour exists, covers too little, and a later sub-strategy
\* provided the mask
C22_Witness ==
    /\ call.op = "forceBackgroundRemoval"
    /\ CornerColorOfInput \notin {<< >>, <<NaNColor>>}
    /\ ~CornerColorCovers
    /\ call.sub \in {"light", "corner"}

\* the pixels of the core window of side 0.25 m around the image centre:
\* centerX <= x < centerX + 0.25 m and the same for y (m = min(w, h))
CoreWindow ==
    {i \in 0..(input.width * input.height - 1) :
        /\ 8 * (i % input.width) >= 4 * input.width - MinSide(input.width, input.height)
        /\ 8 * (i % input.width) < 4 * input.width + MinSide(input.width, input.height)
        /\ 8 * (i \div input.width) >= 4 * input.height - MinSide(input.width, input.height)
        /\ 8 * (i \div input.width) < 4 * input.height + MinSide(input.width, input.height)}

\* C23: checkForProblematicHoles reports a hole exactly when some maximal
\* 4-connected zero region lying entirely inside the core window of side
\* 0.25*min(w,h) has more than 5% of width*height pixels; a zero region that
\* touches the window but extends outside it does not cause rejection.
C23_HoleInsideCoreWindow ==
    call.op = "checkForProblematicHoles" =>
        (call.holes <=>
            \E region \in TrueRegions :
                /\ region \subseteq CoreWindow
                /\ 100 * Cardinality(region) > 5 * input.width * input.height)

\* C24: each of the four feature layers of createEnhancedAIMask (colour-cluster
\* distance, Sobel edge magnitude, texture variance, spatial coherence) is in
\* [0,1] at every pixel of every image, and so is their weighted sum with
\* weights 0.3, 0.25, 0.25, 0.2.  (The layers are carried scaled: 1.0 is 25500
\* for the colour layer, 30 * 255 for the edge layer, 37500 * 255 for the
\* texture layer, 25 * 25500 for the coherence layer and 255 * 150000 for the
\* sum.)
C24_LayersInUnitInterval ==
    call.op = "createEnhancedAIMask" =>
        \A j \in 1..Len(call.runs) :
            \A i \in 0..(input.width * input.height - 1) :
                LET data == Decoded(input)
                IN  /\ ColorClusterDistance100(data, input.channels, i,
                                               call.runs[j].samples) \in 0..25500
                    /\ analyzeEdgeComplexity(data, input.width, input.height,
                                             input.channels, i) \in 0..(30 * 255)
                    /\ analyzeTexturePatterns(data, input.width, input.height,
                                              input.channels, i) \in 0..(37500 * 255)
                    /\ analyzeSpatialCoherence(data, input.width, input.height,
                                               input.channels, i) \in 0..(25 * 25500)
                    /\ BackgroundScoreUnits(data, input.width, input.height,
                                            input.channels, i, call.runs[j].samples)
                         \in 0..(255 * 150000)

\* the (r, g, b) triples of the pixels of the image at hand
PixelsOfInput ==
    {PixelAt(Decoded(input), input.channels, i) : i \in 0..(input.width * input.height - 1)}

\* C25: the pixel samplers skip out-of-bounds indices: for every image size,
\* every triple returned by sampleBackgroundRegions, by sampleCorners and by the
\* sampling of getCornerDominantColor is the (r, g, b) of an actual in-bounds
\* pixel, all three components integers in 0..255.
C25_SamplesAreRealPixels ==
    call.op \in {"sampleBackgroundRegions", "sampleCorners", "getCornerDominantColor"} =>
        \A k \in 1..Len(call.samples) :
            /\ call.samples[k] \in PixelsOfInput
            /\ \A c \in 1..3 : call.samples[k][c] \in 0..255

\* C26: on a binary mask, opening (erode then dilate) turns an isolated 255
\* pixel inside a 0 region into 0, and closing (dilate then erode) turns an
\* isolated 0 pixel inside a 255 region into 255, for pixels away from the
\* border (one pixel for the speckle, two for the hole: the filters zero the
\* border); applyMorphologicalOperations is the opening followed by the closing.
C26_SpeckleRemovedHoleFilled ==
    /\ call.op = "opening" =>
        \A p \in DOMAIN call.mask : Isolated(p, 255, 1) => call.filtered[p] = 0
    /\ call.op = "closing" =>
        \A p \in DOMAIN call.mask : Isolated(p, 0, 2) => call.filtered[p] = 255
    /\ call.op = "applyMorphologicalOperations" =>
        call.filtered =
            erode(dilate(dilate(erode(call.mask, input.width, input.height),
                                input.width, input.height),
                         input.width, input.height),
                  input.width, input.height)

\* the two halves were applied to a mask on which their order matters
C26_Witness ==
    /\ call.op = "applyMorphologicalOperations"
    /\ call.filtered # closeThenOpen(call.mask, input.width, input.height)

\* the pixels of the two outermost rows and columns
OuterTwoRings ==
    {i \in 0..(input.width * input.height - 1) :
        \/ i % input.width \in {0, 1, input.width - 2, input.width - 1}
        \/ i \div input.width \in {0, 1, input.height - 2, input.height - 1}}

\* C27: for every mask with width >= 4 and height >= 4, the mask returned by
\* applyMorphologicalOperations is 0 at every pixel of rows 0, 1, height-2,
\* height-1 and columns 0, 1, width-2, width-1, whatever the input held there,
\* and every output value is 0 or 255 when the input is binary.
C27_OuterRingsZeroed ==
    (/\ call.op = "applyMorphologicalOperations"
     /\ input.width >= 4
     /\ input.height >= 4) =>
        /\ \A i \in OuterTwoRings : call.filtered[i] = 0
        /\ (\A i \in DOMAIN call.mask : call.mask[i] \in {0, 255}) =>
                \A i \in DOMAIN call.filtered : call.filtered[i] \in {0, 255}

\* the input held 255 in the outer rings and the output keeps 255 further in
C27_Witness ==
    /\ call.op = "applyMorphologicalOperations"
    /\ input.width >= 4
    /\ input.height >= 4
    /\ \A i \in OuterTwoRings : call.mask[i] = 255
    /\ \E i \in DOMAIN call.filtered : call.filtered[i] = 255


(***************************************************************************)
(* The protected zone in the masks of the builders.                        *)
(***************************************************************************)
\* the builders whose masks the cascade stages and the forced sub-strategies
\* hand to applyMaskAndSave
SavedMaskBuilders ==
    {"createProtectedMask", "createEnhancedProtectedMask", "createEnhancedFloodFillMask",
     "createEnhancedEdgeMask", "createLightBackgroundMask", "createEnhancedCornerMask"}

\* C28: every mask a cascade stage or a forced sub-strategy can hand to
\* applyMaskAndSave (plain, enhanced, flood-fill, edge, light, per-corner) is
\* 255 at every pixel of the protected zone; the per-corner mask, which never
\* consults the zone, clears no pixel of it either.
C28_ZoneStaysOpaque ==
    call.op = "builders" =>
        \A j \in 1..Len(call.returned) :
            /\ call.returned[j].builder \in SavedMaskBuilders
            /\ \A i \in ZonePixels : call.heap[call.returned[j].buffer][i] = 255

\* the per-corner builder and another builder have both cleared pixels of an
\* image that has a protected zone
C28_Witness ==
    /\ call.op = "builders"
    /\ Len(call.returned) = 2
    /\ ZonePixels # {}
    /\ call.returned[1].builder = "createEnhancedCornerMask"
    /\ call.returned[2].builder # "createEnhancedCornerMask"
    /\ \A j \in 1..2 : \E i \in DOMAIN call.heap[j + 1] : call.heap[j + 1][i] = 0


(***************************************************************************)
(* The shape of the flood-fill mask.                                       *)
(***************************************************************************)
\* the mask indices of the seed points of the image at hand
SeedIndices ==
    LET seeds == StartPoints(Decoded(input), input.width, input.height, input.channels)
    IN  {seeds[n][2] * input.width + seeds[n][1] : n \in 1..Len(seeds)}

\* the four corner pixels
CornerIndices ==
    {0, input.width - 1, (input.height - 1) * input.width,
     input.height * input.width - 1}

\* the zero pixels of a mask joined to a zero seed by a 4-connected path of
\* zero pixels
JoinedToSeed(mask) ==
    UNION {RegionOf(s, mask, 0, input.width, input.height) :
              s \in {t \in SeedIndices : IsZeroAt(mask, t)}}

\* the loop of one enhancedFloodFill call from each seed has ended: its queue
\* is empty or its cap is reached
FillsEnd ==
    LET seeds == StartPoints(Decoded(input), input.width, input.height, input.channels)
    IN  \A n \in 1..Len(seeds) :
            LET r == enhancedFloodFill(Decoded(input), {}, seeds[n][1], seeds[n][2],
                                       input.width, input.height, input.channels, 40)
            IN  r.layer = << >> \/ ~BelowCap(r.processed, input.width, input.height)

\* C29: in the mask createEnhancedFloodFillMask returns the four corner pixels
\* are 0, every zero pixel is joined to a seed point by a 4-connected path of
\* zero pixels, no pixel is absorbed by more than one seed's fill, and every
\* fill ends.
C29_FloodFillMaskShape ==
    call.op = "createEnhancedFloodFillMask" =>
        /\ \A c \in CornerIndices : call.mask[c] = 0
        /\ {i \in DOMAIN call.mask : call.mask[i] = 0} \subseteq JoinedToSeed(call.mask)
        /\ SumOver(LAMBDA n : call.perSeed[n], 1, Len(call.perSeed))
               = RemovedPixels(call.mask)
        /\ FillsEnd


(***************************************************************************)
(* What ImageProcessor.removeBackground returns.                           *)
(***************************************************************************)
\* the positions inside ImageProcessor.removeBackground
CascadePositions == {"decode", "advanced", "flood", "statistical", "edge", "forced"}

\* an exception reached the catch of removeBackground: the decode threw (a
\* result although no stage ran), or the write of the forced stage and its
\* last-resort write both threw
ExceptionReachedCatch ==
    \/ trace = << >>
    \/ /\ trace[Len(trace)].stage = "forced"
       /\ trace[Len(trace)].verdict = "failed"

\* C30: ImageProcessor.removeBackground never throws to its caller: once a
\* stage has run and the cascade is left, a result has been returned.  Its
\* success is false, with an error message, exactly when the decode threw or
\* the last-resort write of the forced stage threw; rejections by stages 1-4
\* alone never give success = false.
C30_FailureOnlyFromException ==
    /\ pc \in CascadePositions => result = << >>
    /\ pc \notin CascadePositions /\ trace # << >> => result # << >>
    /\ result # << >> =>
          /\ result[1].success \in BOOLEAN
          /\ ~result[1].success => result[1].error # "" /\ result[1].method = ""
          /\ ~result[1].success <=> ExceptionReachedCatch

\* stages 1-4 all reported { success: false }, the write of the forced stage
\* and the last-resort write both threw, and removeBackground returned
\* success = false
C30_Witness ==
    /\ pc = "respond"
    /\ result # << >>
    /\ ~result[1].success
    /\ Len(trace) = 5
    /\ \A n \in 1..4 : trace[n].verdict \in Rejections
    /\ trace[5].verdict = "failed"

====
